---- MODULE Spec2Model ----
(***************************************************************************)
(* A state-machine model of the layer engine of the doodle guesser: the    *)
(* NeuralNetwork class (construction, guess, train, checkpoint and         *)
(* fromCheckpoint), the Tensor4D buffer it works on, and the activation    *)
(* and loss registries.                                                    *)
(*                                                                         *)
(* Numbers.  A Float32 value is modelled by an integer, or by one of the   *)
(* three IEEE-754 specials NaN, PosInf, NegInf.  Integer inputs of small   *)
(* magnitude are exactly representable, so +, - and * on them are exact.   *)
(* A read outside a typed array yields undefined, which every arithmetic   *)
(* use and every comparison in the code treats like NaN; the model reads   *)
(* NaN there.  Math.random is a generator: rng counts the draws made and   *)
(* RandVal gives the value of each draw.                                   *)
(***************************************************************************)
EXTENDS Integers, Sequences, FiniteSets, TLC

VARIABLES
  pc,        \* "new" | "ready" | "ctorThrew": the life of one NeuralNetwork;
             \* "fn" when a helper is applied on its own
  configs,   \* the LayerConfig[] handed to the constructor
  opts,      \* NeuralNetworkOptions: learningRate, loss, debug
  layers,    \* this.layers: the built layers with their parameters
  rng,       \* number of Math.random() draws made so far
  calls,     \* number of guess/train calls made
  last,      \* what the last guess/train call did
  trained,   \* whether train has been called on the network
  restored,  \* the result of fromCheckpoint(checkpoint()), when taken
  fnIn,      \* input of a helper applied on its own
  fnOut,     \* its result
  thrown,    \* the error the constructor threw, when it did
  heap       \* the parameter buffers by address, where their identity matters

vars ==
  <<pc, configs, opts, layers, rng, calls, last, trained, restored, fnIn, fnOut,
    thrown, heap>>

None == [k |-> "none"]

-----------------------------------------------------------------------------
(* Bounds *)

MaxLayers == 3      \* longest configuration list
MaxVal == 2         \* largest magnitude of an input value
MaxCalls == 1       \* guess/train calls per network
NumSeeds == 1       \* initial states of the random generator
MaxDim == 3         \* largest input height and width of a Conv2D built on its own
MaxKernel == 3      \* largest kernel height and width
MaxStride == 2      \* largest stride
MaxBatch == 2       \* largest batch dimension of a tensor given to Flatten
MaxWrites == 1      \* writes a caller makes to the arrays of a checkpoint
MaxArgs == 2        \* command-line arguments given to the trainer
MaxCount == 1       \* samples of one class in the train split
MaxEpochs == 2      \* epochs of one Trainer.train call
MaxReads == 3       \* readSample calls on one NodeFileSource
MaxSnaps == 3       \* strokes one DrawingApp run starts
MaxMarks == 4       \* marks one DrawingApp run makes on the canvas
MaxPad == 1         \* rows or columns of padding on each side
MaxRatio == 3       \* activations are sampled at x = ln(n / d), n and d up to MaxRatio

-----------------------------------------------------------------------------
(* Float32 values *)

NaN == 888888
PosInf == 777777
NegInf == -777777

IsNaN(v) == v = NaN
IsInf(v) == v = PosInf \/ v = NegInf
IsFinite(v) == ~IsNaN(v) /\ ~IsInf(v)

FNeg(a) ==
  IF IsNaN(a) THEN NaN
  ELSE IF a = PosInf THEN NegInf
  ELSE IF a = NegInf THEN PosInf
  ELSE 0 - a

FAdd(a, b) ==
  IF IsNaN(a) \/ IsNaN(b) THEN NaN
  ELSE IF IsInf(a) THEN (IF IsInf(b) /\ a # b THEN NaN ELSE a)
  ELSE IF IsInf(b) THEN b
  ELSE a + b

FSub(a, b) == FAdd(a, FNeg(b))

FSign(a) == IF a > 0 THEN 1 ELSE IF a < 0 THEN -1 ELSE 0

FMul(a, b) ==
  IF IsNaN(a) \/ IsNaN(b) THEN NaN
  ELSE IF IsInf(a) \/ IsInf(b)
    THEN (IF a = 0 \/ b = 0 THEN NaN
          ELSE IF FSign(a) * FSign(b) > 0 THEN PosInf ELSE NegInf)
  ELSE a * b

\* a > b and a < b of JavaScript: false as soon as one side is NaN
FGt(a, b) == ~IsNaN(a) /\ ~IsNaN(b) /\ a > b
FLt(a, b) == ~IsNaN(a) /\ ~IsNaN(b) /\ a < b

\* F(e) with e evaluated once
With(e, F(_)) == CHOOSE r \in {F(v) : v \in {e}} : TRUE

\* a buffer of n values, element i being F(i), each computed once
Buf(n, F(_)) == SubSeq([i \in 1..n |-> F(i)], 1, n)

RECURSIVE SumFrom(_, _)
SumFrom(buf, i) == IF i > Len(buf) THEN 0 ELSE FAdd(buf[i], SumFrom(buf, i + 1))

\* 0 + F(1) + ... + F(n)
FSumN(n, F(_)) == With(Buf(n, F), LAMBDA b : SumFrom(b, 1))

clip(v) == IF FGt(v, 1) THEN 1 ELSE IF FLt(v, -1) THEN -1 ELSE v

\* the value of the k-th Math.random() draw, after (r - 0.5) * scale
RandVal(k) == (k % 3) - 1

-----------------------------------------------------------------------------
(* Tensor4D and Float32Array *)

Vec(d) == [k |-> "vec", shape |-> <<>>, buf |-> d]
T4(shape, d) == [k |-> "t4", shape |-> shape, buf |-> d]

IsVec(a) == a.k = "vec"
IsT4(a) == a.k = "t4"

F32Size(shape) == shape[1] * shape[2] * shape[3] * shape[4]

Strides(shape) ==
  <<shape[2] * shape[3] * shape[4], shape[3] * shape[4], shape[4], 1>>

Zeros(n) == Buf(n, LAMBDA i : 0)

\* new Float32Array(n) throws a RangeError for a negative length
AllocThrows(n) == n < 0

idx(shape, n, y, x, c) ==
  LET s == Strides(shape) IN n * s[1] + y * s[2] + x * s[3] + c * s[4]

BufGet(buf, i) == IF i >= 0 /\ i < Len(buf) THEN buf[i + 1] ELSE NaN

TGet(t, n, y, x, c) == BufGet(t.buf, idx(t.shape, n, y, x, c))

PositiveDims(shape) == \A d \in 1..4 : shape[d] > 0

\* the coordinates of flat index j in a tensor of positive dimensions
CoordOf(shape, j) ==
  LET s == Strides(shape) IN
  <<j \div s[1], (j % s[1]) \div s[2], (j % s[2]) \div s[3], j % s[3]>>

\* new Tensor4D(shape) followed by one set(n, y, x, c, F(n, y, x, c)) for every
\* coordinate of the shape, as the nested loops of the code do
TensorOf(shape, F(_, _, _, _)) ==
  T4(shape,
     Buf(F32Size(shape),
         LAMBDA i :
           IF PositiveDims(shape)
             THEN With(CoordOf(shape, i - 1), LAMBDA q : F(q[1], q[2], q[3], q[4]))
             ELSE 0))

pad(t, padTop, padBottom, padLeft, padRight) ==
  LET N == t.shape[1]
      H == t.shape[2]
      W == t.shape[3]
      C == t.shape[4]
      newShape == <<N, H + padTop + padBottom, W + padLeft + padRight, C>>
  IN TensorOf(newShape,
       LAMBDA n, y, x, c :
         IF y >= padTop /\ y < padTop + H /\ x >= padLeft /\ x < padLeft + W
           THEN TGet(t, n, y - padTop, x - padLeft, c)
           ELSE 0)

\* flatten()[0]: the first batch element
flattenFirst(t) ==
  LET sN == Strides(t.shape)[1] IN
  SubSeq(t.buf, 1, IF sN < Len(t.buf) THEN sN ELSE Len(t.buf))

\* Tensor4D.slice(start, end): a copy of the buffer between the two indices
slice(t, start, end) ==
  LET e == IF end > Len(t.buf) THEN Len(t.buf) ELSE end
  IN SubSeq(t.buf, start + 1, e)

-----------------------------------------------------------------------------
(* Activation registry: f(x) and df(y) *)

relu(x) == IF FGt(x, 0) THEN x ELSE IF IsNaN(x) THEN NaN ELSE 0
drelu(y) == IF FGt(y, 0) THEN 1 ELSE 0
linear(x) == x
dlinear(y) == 1

\* softmax(z) = exp(z[i] - max) / sum.  The quotient is a whole number only
\* for a vector of one value, where it is exp(0) / exp(0) = 1 for a finite z and
\* NaN otherwise; the model carries softmax layers of one output only.
softmax(z) ==
  Buf(Len(z),
      LAMBDA i : IF Len(z) = 1 THEN (IF IsFinite(z[i]) THEN 1 ELSE NaN)
                 ELSE CHOOSE v \in {} : TRUE)

\* the elementwise derivative of the registry entry named "softmax", on the
\* output y: the diagonal y * (1 - y) of the Jacobian
dsoftmax(y) == FMul(y, FSub(1, y))

ActF(name, x) == IF name = "relu" THEN relu(x) ELSE linear(x)
ActDF(name, y) ==
  IF name = "relu" THEN drelu(y)
  ELSE IF name = "softmax" THEN dsoftmax(y)
  ELSE dlinear(y)

-----------------------------------------------------------------------------
(* Layer configurations the constructor is given *)

InputCfg(shape) == [type |-> "input", shape |-> shape]
DenseCfg(size, act) == [type |-> "dense", size |-> size, activation |-> act]
Conv2DCfg(filters, kernel, stride, padding, act) ==
  [type |-> "conv2d", filters |-> filters, kernel |-> kernel,
   stride |-> stride, padding |-> padding, activation |-> act]
PoolCfg(size, stride) == [type |-> "pool", size |-> size, stride |-> stride]
FlattenCfg == [type |-> "flatten"]

\* <<>> stands for an absent stride, "none" for an absent activation
LayerTemplates ==
  { InputCfg(<<1, 2, 2, 1>>),
    DenseCfg(2, "relu"),
    DenseCfg(1, "none"),
    Conv2DCfg(1, <<2, 2>>, <<>>, "valid", "relu"),
    Conv2DCfg(1, <<2, 2>>, <<1, 1>>, "same", "linear"),
    PoolCfg(<<2, 2>>, <<>>),
    PoolCfg(<<1, 1>>, <<1, 1>>),
    FlattenCfg }

RECURSIVE SeqsUpTo(_, _)
SeqsUpTo(S, n) ==
  IF n = 0 THEN {<<>>}
  ELSE LET shorter == SeqsUpTo(S, n - 1)
       IN shorter \cup {Append(s, e) : s \in {t \in shorter : Len(t) = n - 1}, e \in S}

ConfigLists == SeqsUpTo(LayerTemplates, MaxLayers)

-----------------------------------------------------------------------------
(* Shape helpers *)

\* a size that leaves out the height of a Conv2D or Pool output
getOutputSizeOfWithoutHeight(layer) ==
  CASE layer.type = "input" -> layer.shape[2] * layer.shape[3] * layer.shape[4]
    [] layer.type = "dense" -> layer.outputSize
    [] layer.type = "flatten" -> layer.size
    [] OTHER -> layer.outShape[3] * layer.outShape[4]

getOutputSizeOf(layer) ==
  CASE layer.type = "input" -> layer.shape[2] * layer.shape[3] * layer.shape[4]
    [] layer.type = "dense" -> layer.outputSize
    [] layer.type = "flatten" -> layer.size
    [] OTHER -> layer.outShape[2] * layer.outShape[3] * layer.outShape[4]

inferOutputShape(layer) ==
  CASE layer.type = "input" -> layer.shape
    [] layer.type = "dense" -> <<1, 1, 1, layer.outputSize>>
    [] layer.type = "flatten" -> <<1, 1, 1, layer.size>>
    [] OTHER -> layer.outShape

-----------------------------------------------------------------------------
(* Building layers.  Each builder returns [threw, layer, rng].             *)

Built(layer, r) == [threw |-> FALSE, layer |-> layer, rng |-> r, err |-> ""]
BuildThrew(r, err) == [threw |-> TRUE, layer |-> None, rng |-> r, err |-> err]

\* new Float32Array(n) with n < 0
RangeError == "RangeError: Invalid typed array length"
\* reading a property of this.layers[-1], which is undefined
TypeError == "TypeError: Cannot read properties of undefined"
ConvOrderError == "Conv2D must follow an input/conv/pool"
TooFewError == "NeuralNetwork requires at least input and output layers."

buildInputLayer(cfg, r) == Built([type |-> "input", shape |-> cfg.shape], r)

buildDenseLayer(cfg, inputSize, r) ==
  LET outputSize == cfg.size
      nW == inputSize * outputSize
  IN IF AllocThrows(nW) \/ AllocThrows(outputSize) THEN BuildThrew(r, RangeError)
     ELSE Built([type |-> "dense",
                 inputSize |-> inputSize,
                 outputSize |-> outputSize,
                 weights |-> Buf(nW, LAMBDA i : RandVal(r + i - 1)),
                 bias |-> Buf(outputSize, LAMBDA i : RandVal(r + nW + i - 1)),
                 activation |-> cfg.activation],
                r + nW + outputSize)

SamePad(inDim, stride, kDim) ==
  LET need == (inDim - 1) * stride + kDim - inDim
  IN IF need > 0 THEN need ELSE 0

\* an output dimension that counts the strides and forgets the first window
ConvOutDimWithoutFirst(inDim, padBefore, padAfter, kDim, stride) ==
  (inDim + padBefore + padAfter - kDim) \div stride

\* an output dimension rounded up instead of down
ConvOutDimRoundedUp(inDim, padBefore, padAfter, kDim, stride) ==
  ((inDim + padBefore + padAfter - kDim + stride - 1) \div stride) + 1

ConvOutDim(inDim, padBefore, padAfter, kDim, stride) ==
  ((inDim + padBefore + padAfter - kDim) \div stride) + 1

buildConv2DLayer(cfg, prev, r) ==
  LET inShape == inferOutputShape(prev)
      N == inShape[1]
      H_in == inShape[2]
      W_in == inShape[3]
      C_in == inShape[4]
      kH == cfg.kernel[1]
      kW == cfg.kernel[2]
      C_out == cfg.filters
      strideH == IF cfg.stride = <<>> THEN 1 ELSE cfg.stride[1]
      strideW == IF cfg.stride = <<>> THEN 1 ELSE cfg.stride[2]
      padH == IF cfg.padding = "same" THEN SamePad(H_in, strideH, kH) ELSE 0
      padW == IF cfg.padding = "same" THEN SamePad(W_in, strideW, kW) ELSE 0
      padTop == padH \div 2
      padBottom == padH - padTop
      padLeft == padW \div 2
      padRight == padW - padLeft
      H_out == ConvOutDim(H_in, padTop, padBottom, kH, strideH)
      W_out == ConvOutDim(W_in, padLeft, padRight, kW, strideW)
      kShape == <<kH, kW, C_in, C_out>>
      nK == F32Size(kShape)
  IN IF AllocThrows(nK) \/ AllocThrows(C_out) THEN BuildThrew(r, RangeError)
     ELSE Built([type |-> "conv2d",
                 kernel |-> T4(kShape, Buf(nK, LAMBDA i : RandVal(r + i - 1))),
                 bias |-> Zeros(C_out),
                 strideH |-> strideH, strideW |-> strideW,
                 padTop |-> padTop, padBottom |-> padBottom,
                 padLeft |-> padLeft, padRight |-> padRight,
                 activation |-> cfg.activation,
                 outShape |-> <<N, H_out, W_out, C_out>>],
                r + nK)

buildPoolLayer(cfg, prev, r) ==
  LET inShape == inferOutputShape(prev)
      windowH == cfg.size[1]
      windowW == cfg.size[2]
      strideH == IF cfg.stride = <<>> THEN windowH ELSE cfg.stride[1]
      strideW == IF cfg.stride = <<>> THEN windowW ELSE cfg.stride[2]
      outH == ((inShape[2] - windowH) \div strideH) + 1
      outW == ((inShape[3] - windowW) \div strideW) + 1
  IN Built([type |-> "pool",
            windowH |-> windowH, windowW |-> windowW,
            strideH |-> strideH, strideW |-> strideW,
            channels |-> inShape[4],
            outShape |-> <<inShape[1], outH, outW, inShape[4]>>],
           r)

buildFlattenLayer(prev, r) ==
  Built([type |-> "flatten", size |-> getOutputSizeOf(prev)], r)

\* a check that only asks for some previous layer
ConvMayFollowAnyLayer(built) == built # <<>>

\* a check that forgets the Dense case
ConvMayFollowUnlessFlatten(built) ==
  built # <<>> /\ built[Len(built)].type # "flatten"

\* one iteration of the constructor's loop: prev is this.layers[i - 1], which is
\* undefined for the first entry, and reading .type of undefined throws
ConvMayFollow(built) ==
  built # <<>> /\ built[Len(built)].type \in {"input", "conv2d", "pool"}

buildLayer(cfg, built, r) ==
  IF cfg.type = "input" THEN buildInputLayer(cfg, r)
  ELSE IF cfg.type = "conv2d" THEN
    (IF ~ConvMayFollow(built)
       THEN BuildThrew(r, ConvOrderError)
       ELSE buildConv2DLayer(cfg, built[Len(built)], r))
  ELSE IF built = <<>> THEN BuildThrew(r, TypeError)
  ELSE IF cfg.type = "dense"
    THEN buildDenseLayer(cfg, getOutputSizeOf(built[Len(built)]), r)
  ELSE IF cfg.type = "flatten" THEN buildFlattenLayer(built[Len(built)], r)
  ELSE buildPoolLayer(cfg, built[Len(built)], r)

RECURSIVE buildLayers(_, _, _, _)
buildLayers(cfgs, i, built, r) ==
  IF i > Len(cfgs)
    THEN [threw |-> FALSE, layers |-> built, rng |-> r, at |-> 0, err |-> ""]
  ELSE With(buildLayer(cfgs[i], built, r), LAMBDA b :
         IF b.threw
           THEN [threw |-> TRUE, layers |-> <<>>, rng |-> b.rng, at |-> i,
                 err |-> b.err]
         ELSE With(Append(built, b.layer), LAMBDA ls :
                buildLayers(cfgs, i + 1, ls, b.rng)))

\* a check that lets a single layer through
TooFewLayersOnlyEmpty(cfgs) == Len(cfgs) < 1

TooFewLayers(cfgs) == Len(cfgs) < 2

\* new NeuralNetwork(configs, opts): at is the index of the entry that threw
\* (0 before the loop)
NewNeuralNetwork(cfgs, r) ==
  IF TooFewLayers(cfgs)
    THEN [threw |-> TRUE, layers |-> <<>>, rng |-> r, at |-> 0, err |-> TooFewError]
  ELSE buildLayers(cfgs, 1, <<>>, r)

-----------------------------------------------------------------------------
(* Feed forward.  Each layer returns [threw, out, cache].                  *)

Fwd(out, cache) == [threw |-> FALSE, out |-> out, cache |-> cache]
FwdThrew == [threw |-> TRUE, out |-> None, cache |-> None]

HasAct(layer) == layer.activation # "none"

Activate(layer, v) == IF HasAct(layer) THEN ActF(layer.activation, v) ELSE v

denseForward(current, layer, debug) ==
  With(IF IsT4(current) THEN flattenFirst(current) ELSE current.buf, LAMBDA x :
  With(Buf(layer.outputSize,
           LAMBDA i :
             FAdd(layer.bias[i],
                  FSumN(layer.inputSize,
                        LAMBDA j : FMul(layer.weights[(i - 1) * layer.inputSize + j],
                                        BufGet(x, j - 1))))), LAMBDA z :
  With(IF layer.activation = "softmax" THEN softmax(z)
       ELSE Buf(Len(z), LAMBDA i : Activate(layer, z[i])), LAMBDA out :
    IF debug /\ \E i \in 1..Len(z) : IsNaN(out[i]) \/ IsNaN(z[i])
      THEN FwdThrew
      ELSE Fwd(Vec(out), [type |-> "dense", input |-> x, z |-> z]))))

conv2DForward(current, layer) ==
  IF ~IsT4(current) \/ AllocThrows(F32Size(layer.outShape)) THEN FwdThrew
  ELSE
    With(pad(current, layer.padTop, layer.padBottom, layer.padLeft, layer.padRight),
         LAMBDA padded :
    LET k == layer.kernel
        kH == k.shape[1]
        kW == k.shape[2]
        C_in == k.shape[3]
        nTerms == IF kH > 0 /\ kW > 0 /\ C_in > 0 THEN kH * kW * C_in ELSE 0
        sum(n, oy, ox, f) ==
          FAdd(layer.bias[f + 1],
               FSumN(nTerms,
                  LAMBDA t :
                    LET ky == (t - 1) \div (kW * C_in)
                        kx == ((t - 1) % (kW * C_in)) \div C_in
                        c == (t - 1) % C_in
                    IN FMul(TGet(padded, n, oy * layer.strideH + ky,
                                 ox * layer.strideW + kx, c),
                            TGet(k, ky, kx, c, f))))
    IN With(TensorOf(layer.outShape,
                     LAMBDA n, oy, ox, f : Activate(layer, sum(n, oy, ox, f))),
            LAMBDA out :
         Fwd(out, [type |-> "conv2d", input |-> current, padded |-> padded,
                   kernel |-> k,
                   outH |-> layer.outShape[2], outW |-> layer.outShape[3],
                   postAct |-> out,
                   strideH |-> layer.strideH, strideW |-> layer.strideW,
                   padTop |-> layer.padTop, padLeft |-> layer.padLeft])))

\* if (v > best)
poolBetterOrEqual(v, best) == FGt(v, best) \/ v = best
poolBetter(v, best) == FGt(v, best)

\* the <<n, y, x, c>> conv2DForward reads from the padded input:
\* padded.get(n, iyBase + ky, ixBase + kx, c) over all its loops
conv2DForwardReads(layer) ==
  {<<n, oy * layer.strideH + ky, ox * layer.strideW + kx, c>> :
     n \in 0..(layer.outShape[1] - 1), oy \in 0..(layer.outShape[2] - 1),
     ox \in 0..(layer.outShape[3] - 1), ky \in 0..(layer.kernel.shape[1] - 1),
     kx \in 0..(layer.kernel.shape[2] - 1), c \in 0..(layer.kernel.shape[3] - 1)}

\* the <<n, y, x, c>> poolForward reads from its input:
\* current.get(n, baseY + wy, baseX + wx, c) over all its loops
poolForwardReads(current, layer) ==
  {<<n, oy * layer.strideH + wy, ox * layer.strideW + wx, c>> :
     n \in 0..(current.shape[1] - 1), oy \in 0..(layer.outShape[2] - 1),
     ox \in 0..(layer.outShape[3] - 1), wy \in 0..(layer.windowH - 1),
     wx \in 0..(layer.windowW - 1), c \in 0..(current.shape[4] - 1)}

\* the scan of one pooling window, in the order of the two loops over wy and wx:
\* acc is <<best, bestIdx>>
RECURSIVE scanWindow(_, _, _, _, _, _, _, _)
scanWindow(current, layer, n, baseY, baseX, c, w, acc) ==
  IF w >= layer.windowH * layer.windowW \/ layer.windowH <= 0 \/ layer.windowW <= 0
    THEN acc
  ELSE LET iy == baseY + (w \div layer.windowW)
           ix == baseX + (w % layer.windowW)
       IN With(TGet(current, n, iy, ix, c), LAMBDA v :
          With(IF poolBetter(v, acc[1]) THEN <<v, idx(current.shape, n, iy, ix, c)>> ELSE acc,
               LAMBDA a :
                 scanWindow(current, layer, n, baseY, baseX, c, w + 1, a)))

poolBest(current, layer, n, oy, ox, c) ==
  scanWindow(current, layer, n, oy * layer.strideH, ox * layer.strideW, c, 0,
             <<NegInf, -1>>)

poolForward(current, layer) ==
  IF ~IsT4(current) THEN FwdThrew
  ELSE
    LET N == current.shape[1]
        C == current.shape[4]
        outH == layer.outShape[2]
        outW == layer.outShape[3]
        oShape == <<N, outH, outW, C>>
    IN IF AllocThrows(F32Size(oShape)) THEN FwdThrew
       ELSE
         With(Buf(F32Size(oShape),
                  LAMBDA i :
                    IF PositiveDims(oShape)
                      THEN With(CoordOf(oShape, i - 1), LAMBDA q :
                             poolBest(current, layer, q[1], q[2], q[3], q[4]))
                      ELSE <<0, 0>>),
              LAMBDA best :
           Fwd(T4(oShape, Buf(Len(best), LAMBDA i : best[i][1])),
               [type |-> "pool", input |-> current,
                windowH |-> layer.windowH, windowW |-> layer.windowW,
                strideH |-> layer.strideH, strideW |-> layer.strideW,
                outH |-> outH, outW |-> outW,
                mask |-> Buf(Len(best), LAMBDA i : best[i][2])]))

\* a Flatten that never looks at the batch dimension
flattenForwardAnyBatch(current) ==
  IF ~IsT4(current) THEN FwdThrew
  ELSE Fwd(Vec(slice(current, 0,
                     current.shape[2] * current.shape[3] * current.shape[4])),
           [type |-> "flatten", N |-> current.shape[1], H |-> current.shape[2],
            W |-> current.shape[3], C |-> current.shape[4]])

flattenForward(current) ==
  IF ~IsT4(current) THEN FwdThrew
  ELSE IF current.shape[1] # 1 THEN FwdThrew
  ELSE Fwd(Vec(slice(current, 0,
                     current.shape[2] * current.shape[3] * current.shape[4])),
           [type |-> "flatten", N |-> current.shape[1], H |-> current.shape[2],
            W |-> current.shape[3], C |-> current.shape[4]])

forwardLayer(layer, input, debug) ==
  CASE layer.type = "input" -> Fwd(input, [type |-> "input", shape |-> layer.shape])
    [] layer.type = "conv2d" -> conv2DForward(input, layer)
    [] layer.type = "pool" -> poolForward(input, layer)
    [] layer.type = "flatten" -> flattenForward(input)
    [] OTHER -> denseForward(input, layer, debug)

\* forwardPass: ctx holds one [out, cache] entry per layer, in layer order
RECURSIVE forwardFrom(_, _, _, _, _)
forwardFrom(ls, i, act, ctx, debug) ==
  IF i > Len(ls) THEN [threw |-> FALSE, ctx |-> ctx]
  ELSE With(forwardLayer(ls[i], act, debug), LAMBDA r :
         IF r.threw THEN [threw |-> TRUE, ctx |-> ctx]
         ELSE With(Append(ctx, [out |-> r.out, cache |-> r.cache]), LAMBDA c :
                forwardFrom(ls, i + 1, r.out, c, debug)))

forwardPass(ls, input, debug) == forwardFrom(ls, 1, input, <<>>, debug)

\* guess(inputs): [threw, out]
guess(ls, input, debug) ==
  With(forwardPass(ls, input, debug), LAMBDA f :
    IF f.threw THEN [threw |-> TRUE, out |-> None]
    ELSE [threw |-> FALSE, out |-> f.ctx[Len(f.ctx)].out])

-----------------------------------------------------------------------------
(* Loss registry: df(yhat, y).  Indexing a Tensor4D yields undefined.      *)

YHat(output, i) == IF IsVec(output) THEN BufGet(output.buf, i) ELSE NaN

dmse(output, y) == Buf(Len(y), LAMBDA i : FSub(YHat(output, i - 1), y[i]))

dcategoricalCrossEntropy(output, y) ==
  Buf(Len(y), LAMBDA i : FSub(YHat(output, i - 1), y[i]))

LossDF(loss, output, y) ==
  IF loss = "mse" THEN dmse(output, y) ELSE dcategoricalCrossEntropy(output, y)

-----------------------------------------------------------------------------
(* Back propagation.  Each layer returns [threw, layer, dIn, used, dfArgs]:  *)
(* the layer with its parameters after the step, the gradient for the      *)
(* previous layer, the gradient values the parameter update used, and the  *)
(* arguments the activation derivative was applied to.                     *)

Bwd(layer, dIn, used, dfArgs) ==
  [threw |-> FALSE, layer |-> layer, dIn |-> dIn, used |-> used, dfArgs |-> dfArgs]
BwdThrew(layer) ==
  [threw |-> TRUE, layer |-> layer, dIn |-> None, used |-> <<>>, dfArgs |-> <<>>]

AnyNonFinite(buf) == \E i \in 1..Len(buf) : ~IsFinite(buf[i])
AnyNaN(buf) == \E i \in 1..Len(buf) : IsNaN(buf[i])

\* the value the activation derivative is applied to for output i
denseDfArg(cache, i) == cache.z[i]

\* dW[i * inSize + j] = dZ[i] * x[j]
denseDW(dZ, x, inSize, outSize) ==
  Buf(inSize * outSize,
      LAMBDA q : FMul(dZ[((q - 1) \div inSize) + 1], BufGet(x, (q - 1) % inSize)))

\* "Crop dPad --> dInput"
cropWithoutOffset(dPad, inShape, C_in, padTop, padLeft) ==
  TensorOf(inShape, LAMBDA n, y, x, c : IF c < C_in THEN TGet(dPad, n, y, x, c) ELSE 0)
cropToInput(dPad, inShape, C_in, padTop, padLeft) ==
  TensorOf(inShape,
    LAMBDA n, y, x, c :
      IF c < C_in THEN TGet(dPad, n, y + padTop, x + padLeft, c) ELSE 0)

\* the weights dX is summed over: "sum += W[i * inSize + j] * dZ[i]" runs before
\* the SGD update of W
denseGradientWeightsUpdated(W, updated) == updated
denseGradientWeights(W, updated) == W

denseBackward(dOut, layer, cache, lr, loss, debug) ==
  IF ~IsVec(dOut) THEN BwdThrew(layer)
  ELSE
    LET x == cache.input
        inSize == layer.inputSize
        outSize == layer.outputSize
        W == layer.weights
        B == layer.bias
        isOutputSoftmax ==
          layer.activation = "softmax" /\ loss = "categoricalCrossEntropy"
        dfArgs == IF HasAct(layer) /\ ~isOutputSoftmax
                    THEN Buf(outSize, LAMBDA i : denseDfArg(cache, i))
                    ELSE <<>>
    IN
    With(Buf(outSize,
             LAMBDA i :
               IF isOutputSoftmax THEN clip(BufGet(dOut.buf, i - 1))
               ELSE clip(FMul(BufGet(dOut.buf, i - 1),
                              IF HasAct(layer)
                                THEN ActDF(layer.activation, denseDfArg(cache, i))
                                ELSE 1))), LAMBDA dZ :
    With(denseDW(dZ, x, inSize, outSize), LAMBDA dW :
    With(Buf(outSize, LAMBDA i : clip(dZ[i])), LAMBDA dB :
    With(denseGradientWeights(
           W, Buf(inSize * outSize, LAMBDA q : FSub(W[q], FMul(lr, dW[q])))),
         LAMBDA Wx :
    With(Buf(inSize,
             LAMBDA j : clip(FSumN(outSize,
                                   LAMBDA i : FMul(Wx[(i - 1) * inSize + j], dZ[i])))),
         LAMBDA dX :
      IF debug /\ (outSize = 0 \/ AnyNonFinite(dZ)
                   \/ \E j \in 1..inSize : ~IsFinite(BufGet(x, j - 1)))
        THEN BwdThrew(layer)
      ELSE IF debug /\ (inSize = 0 \/ AnyNonFinite(dX)) THEN BwdThrew(layer)
      ELSE Bwd([layer EXCEPT
                  !.bias = Buf(outSize, LAMBDA i : FSub(B[i], FMul(lr, dB[i]))),
                  !.weights = Buf(inSize * outSize,
                                  LAMBDA q : FSub(W[q], FMul(lr, dW[q])))],
               Vec(dX), dW \o dB, dfArgs))))))

flattenBackward(dOut, layer, cache) ==
  IF ~IsVec(dOut) THEN BwdThrew(layer)
  ELSE LET shape == <<cache.N, cache.H, cache.W, cache.C>>
       IN IF AllocThrows(F32Size(shape)) THEN BwdThrew(layer)
          ELSE Bwd(layer,
                   TensorOf(shape,
                     LAMBDA n, y, x, c : BufGet(dOut.buf, idx(shape, n, y, x, c))),
                   <<>>, <<>>)

\* the value the activation derivative is applied to at (n, oy, ox, f)
convDfArg(cache, n, oy, ox, f) == TGet(cache.postAct, n, oy, ox, f)

conv2DBackward(dOut, layer, cache, lr) ==
  IF ~IsT4(dOut) THEN BwdThrew(layer)
  ELSE
    LET input == cache.input
        padded == cache.padded
        kernel == cache.kernel
        outH == cache.outH
        outW == cache.outW
        N == input.shape[1]
        H == padded.shape[2]
        W == padded.shape[3]
        kH == kernel.shape[1]
        kW == kernel.shape[2]
        C_in == kernel.shape[3]
        C_out == kernel.shape[4]
        InLoop(n, oy, ox, f) ==
          n < N /\ oy < outH /\ ox < outW /\ f < C_out
        nPos == IF N > 0 /\ outH > 0 /\ outW > 0 THEN N * outH * outW ELSE 0
        PosN(t) == (t - 1) \div (outH * outW)
        PosY(t) == ((t - 1) % (outH * outW)) \div outW
        PosX(t) == (t - 1) % outW
        nK == IF kH > 0 /\ kW > 0 /\ C_in > 0 /\ C_out > 0
                THEN kH * kW * C_in * C_out ELSE 0
        padShape == <<N, H, W, C_in>>
        dfArgs == IF HasAct(layer)
                    THEN TensorOf(dOut.shape,
                           LAMBDA n, oy, ox, f : convDfArg(cache, n, oy, ox, f)).buf
                    ELSE <<>>
    IN
    IF AllocThrows(F32Size(padShape)) THEN BwdThrew(layer)
    ELSE
    With(TensorOf(dOut.shape,
           LAMBDA n, oy, ox, f :
             IF InLoop(n, oy, ox, f)
               THEN (IF HasAct(layer)
                       THEN FMul(TGet(dOut, n, oy, ox, f),
                                 ActDF(layer.activation, convDfArg(cache, n, oy, ox, f)))
                       ELSE TGet(dOut, n, oy, ox, f))
               ELSE 0), LAMBDA dZ :
    With(TensorOf(kernel.shape,
           LAMBDA ky, kx, c, f :
             FSumN(nPos,
                   LAMBDA t :
                     FMul(TGet(padded, PosN(t), PosY(t) * cache.strideH + ky,
                               PosX(t) * cache.strideW + kx, c),
                          TGet(dZ, PosN(t), PosY(t), PosX(t), f)))), LAMBDA dKernel :
    With(Buf(C_out,
             LAMBDA f : FSumN(nPos,
                              LAMBDA t : TGet(dZ, PosN(t), PosY(t), PosX(t), f - 1))),
         LAMBDA dBias :
    \* every dPad.set of the loops, gathered by the flat index it writes
    With(T4(padShape,
            Buf(F32Size(padShape),
                LAMBDA j :
                  FSumN(nPos * nK,
                        LAMBDA u :
                          LET t == ((u - 1) \div nK) + 1
                              kq == CoordOf(kernel.shape, (u - 1) % nK)
                          IN IF idx(padShape, PosN(t),
                                    PosY(t) * cache.strideH + kq[1],
                                    PosX(t) * cache.strideW + kq[2], kq[3]) = j - 1
                               THEN FMul(TGet(kernel, kq[1], kq[2], kq[3], kq[4]),
                                         TGet(dZ, PosN(t), PosY(t), PosX(t), kq[4]))
                               ELSE 0))), LAMBDA dPad :
      Bwd([layer EXCEPT
             !.bias = Buf(C_out, LAMBDA f : FSub(layer.bias[f], FMul(lr, dBias[f]))),
             !.kernel = TensorOf(kernel.shape,
                          LAMBDA ky, kx, c, f :
                            FSub(TGet(kernel, ky, kx, c, f),
                                 FMul(lr, TGet(dKernel, ky, kx, c, f))))],
          cropToInput(dPad, input.shape, C_in, cache.padTop, cache.padLeft),
          dKernel.buf \o dBias, dfArgs)))))

\* (a / b) | 0 and a % b of JavaScript, for b > 0
JsTruncDiv(a, b) ==
  IF IsNaN(a) \/ b = 0 THEN 0
  ELSE IF a >= 0 THEN a \div b ELSE 0 - ((0 - a) \div b)
JsRem(a, b) ==
  IF IsNaN(a) \/ b = 0 THEN NaN
  ELSE IF a >= 0 THEN a % b ELSE 0 - ((0 - a) % b)

\* a decoding that takes the row for the column
decodeIndexTransposed(shape, i) ==
  LET s == Strides(shape)
      rem1 == JsRem(i, s[1])
      rem2 == JsRem(rem1, s[2])
  IN <<JsTruncDiv(i, s[1]), JsTruncDiv(rem2, s[3]),
       JsTruncDiv(rem1, s[2]), JsRem(rem2, s[3])>>

\* poolBackward's decoding of a recorded flat index into <<nn, yy, xx, cc>>
decodeIndex(shape, i) ==
  LET s == Strides(shape)
      rem1 == JsRem(i, s[1])
      rem2 == JsRem(rem1, s[2])
  IN <<JsTruncDiv(i, s[1]), JsTruncDiv(rem1, s[2]),
       JsTruncDiv(rem2, s[3]), JsRem(rem2, s[3])>>

\* the flat index dX.get / dX.set use for decoded coordinates; -1 when outside
targetIndex(shape, i) ==
  LET q == decodeIndex(shape, i)
  IN IF \E d \in 1..4 : IsNaN(q[d]) THEN -1
     ELSE idx(shape, q[1], q[2], q[3], q[4])

poolBackward(dOut, layer, cache) ==
  IF ~IsT4(dOut) THEN BwdThrew(layer)
  ELSE
    LET input == cache.input
        shape == input.shape
        N == shape[1]
        C == shape[4]
        loopShape == <<N, cache.outH, cache.outW, C>>
        nOut == IF PositiveDims(loopShape) THEN F32Size(loopShape) ELSE 0
    IN IF AllocThrows(F32Size(shape)) THEN BwdThrew(layer)
       ELSE
         \* for every loop position m: <<the index written, the gradient added>>
         With(Buf(nOut,
                  LAMBDA m :
                    With(CoordOf(loopShape, m - 1), LAMBDA q :
                      <<targetIndex(shape, BufGet(cache.mask, m - 1)),
                        TGet(dOut, q[1], q[2], q[3], q[4])>>)), LAMBDA routed :
           Bwd(layer,
               T4(shape,
                  Buf(F32Size(shape),
                      LAMBDA j :
                        FSumN(nOut,
                              LAMBDA m : IF routed[m][1] = j - 1
                                           THEN routed[m][2] ELSE 0))),
               <<>>, <<>>))

backwardLayer(layer, dOut, cache, lr, loss, debug) ==
  CASE layer.type = "input" -> Bwd(layer, dOut, <<>>, <<>>)
    [] layer.type = "conv2d" -> conv2DBackward(dOut, layer, cache, lr)
    [] layer.type = "pool" -> poolBackward(dOut, layer, cache)
    [] layer.type = "flatten" -> flattenBackward(dOut, layer, cache)
    [] OTHER -> denseBackward(dOut, layer, cache, lr, loss, debug)

\* the "NaN Guard" of train on the gradient a layer returned
nanGuard(dOut, debug) ==
  IsVec(dOut) /\ ((debug /\ ~IsFinite(BufGet(dOut.buf, 0))) \/ AnyNaN(dOut.buf))

\* the diagnostics of debug mode read output[0].toFixed, which throws when
\* output[0] is undefined (a Tensor4D or an empty array)
diagnosticsThrow(output, debug) ==
  debug /\ (~IsVec(output) \/ Len(output.buf) = 0)

\* a seed with the difference of the shortcut taken the other way round
seedGradientReversed(outputLayer, output, target, loss) ==
  IF outputLayer.type = "dense" /\ outputLayer.activation = "softmax"
     /\ loss = "categoricalCrossEntropy"
    THEN Vec(Buf(Len(output.buf), LAMBDA i : FSub(BufGet(target, i - 1), output.buf[i])))
    ELSE Vec(LossDF(loss, output, target))

\* the seed of the backward pass
seedGradient(outputLayer, output, target, loss) ==
  IF outputLayer.type = "dense" /\ outputLayer.activation = "softmax"
     /\ loss = "categoricalCrossEntropy"
    THEN Vec(Buf(Len(output.buf), LAMBDA i : FSub(output.buf[i], BufGet(target, i - 1))))
    ELSE Vec(LossDF(loss, output, target))

\* the backward loop from layer i down to the first: ls holds the layers as
\* updated so far, steps one record per backward step taken (last layer first)
RECURSIVE backwardFrom(_, _, _, _, _, _, _, _)
backwardFrom(ls, ctx, i, dOut, steps, lr, loss, debug) ==
  IF i = 0 THEN [threw |-> FALSE, layers |-> ls, steps |-> steps]
  ELSE
    With(backwardLayer(ls[i], dOut, ctx[i].cache, lr, loss, debug), LAMBDA b :
    With([ls EXCEPT ![i] = b.layer], LAMBDA ls2 :
    With(Append(steps, [layer |-> i, cache |-> ctx[i].cache, threw |-> b.threw,
                        dIn |-> b.dIn, used |-> b.used, dfArgs |-> b.dfArgs]),
         LAMBDA steps2 :
      IF b.threw \/ nanGuard(b.dIn, debug)
        THEN [threw |-> TRUE, layers |-> ls2, steps |-> steps2]
        ELSE backwardFrom(ls2, ctx, i - 1, b.dIn, steps2, lr, loss, debug))))

\* a backward loop that starts one entry too low
firstBackwardIndexOffByOne(ctx) == Len(ctx) - 1

\* "for (let i = ctx.length - 1; i >= 0; i--)": the entry the loop starts at
firstBackwardIndex(ctx) == Len(ctx)

\* train(input, target): [threw, layers, outs, seed, steps]
train(ls, input, target, o) ==
  With(forwardPass(ls, input, o.debug), LAMBDA f :
  With(Buf(Len(f.ctx), LAMBDA i : f.ctx[i].out), LAMBDA outs :
    IF f.threw
      THEN [threw |-> TRUE, layers |-> ls, outs |-> outs, seed |-> None,
            steps |-> <<>>]
    ELSE With(seedGradient(ls[Len(ls)], f.ctx[Len(f.ctx)].out, target, o.loss),
              LAMBDA dOut :
         IF diagnosticsThrow(f.ctx[Len(f.ctx)].out, o.debug)
           THEN [threw |-> TRUE, layers |-> ls, outs |-> outs, seed |-> dOut,
                 steps |-> <<>>]
         ELSE
         With(backwardFrom(ls, f.ctx, firstBackwardIndex(f.ctx), dOut, <<>>,
                           o.learningRate, o.loss, o.debug), LAMBDA b :
           [threw |-> b.threw, layers |-> b.layers, outs |-> outs, seed |-> dOut,
            steps |-> b.steps]))))

-----------------------------------------------------------------------------
(* checkpoint and fromCheckpoint *)

serializeLayer(l) ==
  CASE l.type = "input" -> [type |-> "input", shape |-> l.shape]
    [] l.type = "flatten" -> [type |-> "flatten", size |-> l.size]
    [] l.type = "pool" ->
         [type |-> "pool", windowH |-> l.windowH, windowW |-> l.windowW,
          strideH |-> l.strideH, strideW |-> l.strideW,
          outShape |-> l.outShape, channels |-> l.channels]
    [] l.type = "dense" ->
         [type |-> "dense", inputSize |-> l.inputSize, outputSize |-> l.outputSize,
          activation |-> l.activation, weights |-> l.weights, bias |-> l.bias]
    [] OTHER ->
         [type |-> "conv2d", strideH |-> l.strideH, strideW |-> l.strideW,
          padTop |-> l.padTop, padBottom |-> l.padBottom,
          padLeft |-> l.padLeft, padRight |-> l.padRight,
          activation |-> l.activation,
          kernel |-> slice(l.kernel, 0, Len(l.kernel.buf)),
          kernelShape |-> l.kernel.shape,
          bias |-> l.bias, outShape |-> l.outShape]

checkpoint(ls, o) ==
  [learningRate |-> o.learningRate,
   layers |-> Buf(Len(ls), LAMBDA i : serializeLayer(ls[i]))]

\* the LayerConfig fromCheckpoint rebuilds from a serialized layer
rebuildConfig(l) ==
  CASE l.type = "input" -> InputCfg(l.shape)
    [] l.type = "flatten" -> FlattenCfg
    [] l.type = "pool" ->
         PoolCfg(<<l.windowH, l.windowW>>, <<l.strideH, l.strideW>>)
    [] l.type = "dense" -> DenseCfg(l.outputSize, l.activation)
    [] OTHER ->
         Conv2DCfg(l.outShape[4], <<l.kernelShape[1], l.kernelShape[2]>>,
                   <<l.strideH, l.strideW>>, "valid", l.activation)

\* Float32Array.prototype.set(source): a RangeError when the source is longer
SetThrows(target, source) == Len(source) > Len(target)
SetInto(target, source) ==
  Buf(Len(target), LAMBDA i : IF i <= Len(source) THEN source[i] ELSE target[i])

\* "inject weights/biases" for one layer: a the serialized layer, b the rebuilt
injectLayer(a, b) ==
  IF a.type = "dense" /\ b.type = "dense"
    THEN (IF SetThrows(b.weights, a.weights) \/ SetThrows(b.bias, a.bias)
            THEN [threw |-> TRUE, layer |-> b]
            ELSE [threw |-> FALSE,
                  layer |-> [b EXCEPT !.weights = SetInto(b.weights, a.weights),
                                      !.bias = SetInto(b.bias, a.bias)]])
  ELSE IF a.type = "conv2d" /\ b.type = "conv2d"
    THEN (IF Len(a.kernel) # F32Size(a.kernelShape) \/ SetThrows(b.bias, a.bias)
            THEN [threw |-> TRUE, layer |-> b]
            ELSE [threw |-> FALSE,
                  layer |-> [b EXCEPT !.kernel = T4(a.kernelShape, a.kernel),
                                      !.bias = SetInto(b.bias, a.bias)]])
  ELSE [threw |-> FALSE, layer |-> b]

\* fromCheckpoint(ckpt): [threw, layers, opts, rng]
fromCheckpoint(ckpt, r) ==
  With(NewNeuralNetwork(Buf(Len(ckpt.layers),
                            LAMBDA i : rebuildConfig(ckpt.layers[i])), r),
       LAMBDA nn :
    With(Buf(Len(nn.layers), LAMBDA i : injectLayer(ckpt.layers[i], nn.layers[i])),
         LAMBDA inj :
      With(nn.threw \/ \E i \in 1..Len(inj) : inj[i].threw, LAMBDA threw :
        [threw |-> threw,
         layers |-> IF threw THEN <<>> ELSE Buf(Len(inj), LAMBDA i : inj[i].layer),
         opts |-> [learningRate |-> ckpt.learningRate, loss |-> "mse",
                   debug |-> FALSE],
         rng |-> nn.rng])))

-----------------------------------------------------------------------------
(* What a caller passes to guess and train *)

\* value i of input pattern p: a constant, a ramp, or a NaN followed by ones
PatVal(p, i) ==
  IF p = 0 THEN MaxVal
  ELSE IF p = 1 THEN ((3 * i) % (2 * MaxVal + 1)) - MaxVal
  ELSE IF i = 1 THEN NaN ELSE 1

Patterns == {0, 1, 2}
FinitePatterns == {0, 1}

PatBuf(p, n) == Buf(n, LAMBDA i : PatVal(p, i))

DeclaredShape == <<1, 2, 2, 1>>
WrongShape == <<1, 1, 1, 1>>
WrongLengths == {3, 5}

\* inputs of the shape the Input template declares
DeclaredInputs ==
  {T4(DeclaredShape, PatBuf(p, F32Size(DeclaredShape))) : p \in FinitePatterns}

CallInputs ==
  {T4(sh, PatBuf(p, F32Size(sh))) : sh \in {DeclaredShape, WrongShape}, p \in Patterns}
    \cup {Vec(PatBuf(p, n)) : n \in WrongLengths, p \in Patterns}

Targets == {<<-1, 1>>, <<1, 0>>}

-----------------------------------------------------------------------------
(* The life of one network *)

LossNames == {"mse", "categoricalCrossEntropy"}

OptionSets ==
  [learningRate : {1}, loss : LossNames, debug : BOOLEAN]

DefaultOptions ==
  [learningRate |-> 1, loss |-> "mse", debug |-> FALSE]

\* the networks the numerical claims are checked on
InputTemplate == InputCfg(DeclaredShape)
Catalogue ==
  { <<InputTemplate, DenseCfg(2, "relu"), DenseCfg(1, "none")>>,
    <<InputTemplate, Conv2DCfg(1, <<2, 2>>, <<>>, "valid", "relu"), FlattenCfg,
      DenseCfg(1, "none")>>,
    <<InputTemplate, Conv2DCfg(1, <<2, 2>>, <<1, 1>>, "same", "linear"), FlattenCfg>>,
    <<InputTemplate, Conv2DCfg(1, <<2, 2>>, <<1, 1>>, "same", "linear"),
      PoolCfg(<<2, 2>>, <<>>), FlattenCfg, DenseCfg(2, "relu")>>,
    <<InputTemplate, PoolCfg(<<1, 1>>, <<1, 1>>), DenseCfg(1, "none")>>,
    <<InputTemplate, DenseCfg(2, "relu"), DenseCfg(1, "softmax")>>,
    <<InputTemplate, DenseCfg(1, "softmax"), DenseCfg(1, "linear")>> }

NoCall == [op |-> "none"]

InitWith(optionSet) ==
  /\ pc = "new"
  /\ configs = <<>>
  /\ opts \in optionSet
  /\ layers = <<>>
  /\ rng \in 0..(NumSeeds - 1)
  /\ calls = 0
  /\ last = NoCall
  /\ trained = FALSE
  /\ restored = None
  /\ fnIn = None
  /\ fnOut = None
  /\ thrown = None
  /\ heap = None

ConstructFrom(lists) ==
  /\ pc = "new"
  /\ \E cfgs \in lists :
       \E b \in {NewNeuralNetwork(cfgs, rng)} :
       /\ configs' = cfgs
       /\ layers' = b.layers
       /\ rng' = b.rng
       /\ pc' = IF b.threw THEN "ctorThrew" ELSE "ready"
       /\ thrown' = IF b.threw THEN [at |-> b.at, err |-> b.err] ELSE None
  /\ UNCHANGED <<opts, calls, last, trained, restored, fnIn, fnOut, heap>>

GuessWith(inputs) ==
  /\ pc = "ready"
  /\ calls < MaxCalls
  /\ \E input \in inputs :
       \E f \in {forwardPass(layers, input, opts.debug)} :
       last' = [op |-> "guess", input |-> input, target |-> <<>>,
                threw |-> f.threw,
                outs |-> Buf(Len(f.ctx), LAMBDA i : f.ctx[i].out),
                before |-> layers, steps |-> <<>>]
  /\ calls' = calls + 1
  /\ UNCHANGED <<pc, configs, opts, layers, rng, trained, restored, fnIn, fnOut, thrown,
               heap>>

TrainWith(inputs) ==
  /\ pc = "ready"
  /\ calls < MaxCalls
  /\ \E input \in inputs, target \in Targets :
       \E t \in {train(layers, input, target, opts)} :
       /\ layers' = t.layers
       /\ last' = [op |-> "train", input |-> input, target |-> target,
                   threw |-> t.threw, outs |-> t.outs, before |-> layers,
                   seed |-> t.seed, steps |-> t.steps]
  /\ calls' = calls + 1
  /\ trained' = TRUE
  /\ UNCHANGED <<pc, configs, opts, rng, restored, fnIn, fnOut, thrown, heap>>

\* restored = NeuralNetwork.fromCheckpoint(nn.checkpoint()); of is the network
\* the checkpoint was taken of, after the restored network once it was trained
Roundtrip ==
  /\ pc = "ready"
  /\ restored = None
  /\ \E c \in {fromCheckpoint(checkpoint(layers, opts), rng)} :
       /\ restored' = [threw |-> c.threw, layers |-> c.layers, opts |-> c.opts,
                       of |-> layers, after |-> None]
       /\ rng' = c.rng
  /\ UNCHANGED <<pc, configs, opts, layers, calls, last, trained, fnIn, fnOut, thrown,
               heap>>

\* restored.train(input, target) with the arguments of the train call the
\* original network has just been given
TrainRestored ==
  /\ pc = "ready"
  /\ restored # None
  /\ ~restored.threw
  /\ restored.after = None
  /\ last.op = "train"
  /\ last.before = restored.of
  /\ \E t \in {train(restored.layers, last.input, last.target, restored.opts)} :
       restored' = [restored EXCEPT !.after = [threw |-> t.threw, layers |-> t.layers]]
  /\ UNCHANGED <<pc, configs, opts, layers, rng, calls, last, trained, fnIn, fnOut,
               thrown, heap>>

\* Spec: a network from the catalogue, under every option, called with inputs
\* of the declared shape and of other shapes
Init == InitWith(OptionSets)
Construct == ConstructFrom(Catalogue)
Guess == GuessWith(CallInputs)
Train == TrainWith(CallInputs)

Next == Construct \/ Guess \/ Train \/ Roundtrip \/ TrainRestored

Spec == Init /\ [][Next]_vars

\* SpecCtor: the constructor on every configuration list up to MaxLayers
\* entries, each accepted network then called with inputs of the declared shape
InitCtor == InitWith({DefaultOptions})
ConstructAny == ConstructFrom(ConfigLists)
FirstGuess == GuessWith(DeclaredInputs)
FirstTrain == TrainWith(DeclaredInputs)

NextCtor == ConstructAny \/ FirstGuess \/ FirstTrain

SpecCtor == InitCtor /\ [][NextCtor]_vars

-----------------------------------------------------------------------------
(* The trainer's command line.  A string is a sequence of characters; an   *)
(* argument is [dashes, key, value]: whether it starts with "--", the text  *)
(* up to the first "=", and the text after it (Absent when there is no "=") *)

Absent == <<"undefined">>

DigitChars == <<"0", "1", "2", "3", "4", "5", "6", "7", "8", "9">>
IsDigit(c) == \E i \in 1..10 : DigitChars[i] = c
DigitVal(c) == (CHOOSE i \in 1..10 : DigitChars[i] = c) - 1

\* parseInt(s) for a string without sign, blank or 0x prefix: the number its
\* leading decimal digits spell, NaN when it starts with no digit
RECURSIVE parseDigits(_, _, _)
parseDigits(str, i, acc) ==
  IF i > Len(str) \/ ~IsDigit(str[i]) THEN acc
  ELSE parseDigits(str, i + 1, 10 * acc + DigitVal(str[i]))

parseInt(str) ==
  IF str = <<>> \/ ~IsDigit(str[1]) THEN NaN ELSE parseDigits(str, 1, 0)

\* out[field] after the loop of argvCommands over process.argv.slice(2)
RECURSIVE argvOut(_, _, _)
argvOut(argv, i, field) ==
  IF i = 0 THEN Absent
  ELSE IF argv[i].dashes /\ argv[i].key = field
    THEN (IF argv[i].value = Absent THEN <<"t", "r", "u", "e">> ELSE argv[i].value)
  ELSE argvOut(argv, i - 1, field)

\* an undefined entry and the empty string are falsy
getInt(argv, field, def) ==
  With(argvOut(argv, Len(argv), field), LAMBDA v :
    IF v = Absent \/ v = <<>> THEN def ELSE parseInt(v))

getString(argv, field, def) ==
  With(argvOut(argv, Len(argv), field), LAMBDA v :
    IF v = Absent \/ v = <<>> THEN def ELSE v)

\* learnRate is in hundredths: no argument of the model sets it
getCLIOptions(argv) ==
  [classList |-> getString(argv, "class-list", "src/categories-3.txt"),
   trainCount |-> getInt(argv, "train-count", 800),
   testCount |-> getInt(argv, "train-count", 200),
   modelOutput |-> getString(argv, "model-output", "doodle-guesser.json"),
   help |-> argvOut(argv, Len(argv), "help") = <<"t", "r", "u", "e">>,
   epochs |-> getInt(argv, "epochs", 15),
   learnRateHundredths |-> 1]

ArgKeys == {"train-count", "test-count", "help"}
ArgValues == {Absent, <<>>, <<"7">>, <<"3", "0">>, <<"4", "x">>, <<"x">>}
Args == [dashes : {TRUE}, key : ArgKeys, value : ArgValues]
         \cup {[dashes |-> FALSE, key |-> "test-count", value |-> <<"7">>]}

CliCases == {[fn |-> "cli", argv |-> a] : a \in SeqsUpTo(Args, MaxArgs)}

-----------------------------------------------------------------------------
(* The activation registry on real numbers.  A number is a fraction        *)
(* [k |-> "q", n, d] = n / d in lowest terms, or the logarithm              *)
(* [k |-> "ln", n, d] = ln(n / d) of one, so that Math.exp and Math.log are *)
(* exact on the sampled points: exp(ln(n / d)) = n / d.                     *)

RECURSIVE GCD(_, _)
GCD(a, b) == IF b = 0 THEN a ELSE GCD(b, a % b)

Q(n, d) ==
  LET g == GCD(IF n < 0 THEN 0 - n ELSE n, d)
  IN [k |-> "q", n |-> n \div g, d |-> d \div g]
Ln(q) == [k |-> "ln", n |-> q.n, d |-> q.d]

QAdd(a, b) == Q(a.n * b.d + b.n * a.d, a.d * b.d)
QSub(a, b) == Q(a.n * b.d - b.n * a.d, a.d * b.d)
QMul(a, b) == Q(a.n * b.n, a.d * b.d)
\* 1 / a, for a > 0
QInv(a) == Q(a.d, a.n)

\* x > 0 and x >= 0
GtZero(x) == IF x.k = "ln" THEN x.n > x.d ELSE x.n > 0
GeZero(x) == IF x.k = "ln" THEN x.n >= x.d ELSE x.n >= 0

\* Math.exp(x) and -x of a logarithm, Math.log(q) of a positive fraction
MathExp(x) == Q(x.n, x.d)
MathLog(q) == Ln(q)
LnNeg(x) == Ln(Q(x.d, x.n))

\* the whole part of e^20 = 485165195.4...
ExpTwenty == 485165195

\* x > 20 and x < -20 of a logarithm, decided on the whole part of the ratio
GtTwenty(x) == (x.n \div x.d) > ExpTwenty
LtMinusTwenty(x) == (x.d \div x.n) > ExpTwenty

sigmoid(x) == QInv(QAdd(Q(1, 1), MathExp(LnNeg(x))))
dsigmoid(y) == QMul(y, QSub(Q(1, 1), y))

\* Math.tanh(x) = (e^2x - 1) / (e^2x + 1); Math.tanh(20) and Math.tanh(-20)
\* are 1 and -1 in double precision
tanh(x) ==
  IF GtTwenty(x) THEN Q(1, 1)
  ELSE IF LtMinusTwenty(x) THEN Q(-1, 1)
  ELSE Q(x.n * x.n - x.d * x.d, x.n * x.n + x.d * x.d)
dtanh(y) == QSub(Q(1, 1), QMul(y, y))

leakyRelu(x, alpha) == IF GtZero(x) THEN x ELSE QMul(alpha, x)
dleakyRelu(y, alpha) == IF GtZero(y) THEN Q(1, 1) ELSE alpha

elu(x, alpha) == IF GeZero(x) THEN x ELSE QMul(alpha, QSub(MathExp(x), Q(1, 1)))
delu(y, alpha) == IF GeZero(y) THEN Q(1, 1) ELSE QAdd(y, alpha)

softplus(x) == MathLog(QAdd(Q(1, 1), MathExp(x)))
dsoftplus(y) == QInv(QAdd(Q(1, 1), MathExp(LnNeg(y))))

\* activations[name].f and activations[name].df; relu and linear are applied to
\* whole numbers
activationsF(name, x) ==
  CASE name = "sigmoid" -> sigmoid(x)
    [] name = "tanh" -> tanh(x)
    [] name = "relu" -> Q(relu(x.n), 1)
    [] name = "leakyRelu" -> leakyRelu(x, Q(1, 100))
    [] name = "elu" -> elu(x, Q(1, 1))
    [] name = "softplus" -> softplus(x)
    [] OTHER -> Q(linear(x.n), 1)

activationsDF(name, y) ==
  CASE name = "sigmoid" -> dsigmoid(y)
    [] name = "tanh" -> dtanh(y)
    [] name = "relu" -> Q(drelu(y.n), 1)
    [] name = "leakyRelu" -> dleakyRelu(y, Q(1, 100))
    [] name = "elu" -> delu(y, Q(1, 1))
    [] name = "softplus" -> dsoftplus(y)
    [] OTHER -> Q(dlinear(y.n), 1)

\* a ratio whose logarithm is beyond the clamp of tanh
BeyondClamp == 1000000000

\* the sampled points: logarithms for the entries that call Math.exp, whole
\* numbers for relu and linear, fractions for leakyRelu
LnSamples == {Ln(Q(n, d)) : n \in 1..MaxRatio, d \in 1..MaxRatio}
ActCases ==
  {[fn |-> "act", name |-> a, x |-> x] :
     a \in {"sigmoid", "elu", "softplus"}, x \in LnSamples}
  \cup {[fn |-> "act", name |-> "tanh", x |-> x] :
          x \in LnSamples \cup {Ln(Q(BeyondClamp, 1)), Ln(Q(1, BeyondClamp))}}
  \cup {[fn |-> "act", name |-> a, x |-> x] :
          a \in {"relu", "linear"}, x \in {Q(n, 1) : n \in (0 - MaxVal)..MaxVal}}
  \cup {[fn |-> "act", name |-> "leakyRelu", x |-> Q(n, d)] :
          n \in (0 - MaxVal)..MaxVal, d \in 1..2}

-----------------------------------------------------------------------------
(* SpecFn: the pooling pair and the Conv2D builder applied on their own     *)

\* what a cell of a pooled tensor holds
CellVals == {NaN, NegInf, -1} \cup (1..MaxVal)

PoolShapes == {<<1, 2, 2, 1>>, <<1, 1, 3, 1>>, <<1, 1, 2, 2>>}

PoolCfgs ==
  { PoolCfg(<<2, 2>>, <<>>), PoolCfg(<<1, 2>>, <<1, 1>>),
    PoolCfg(<<1, 1>>, <<>>), PoolCfg(<<1, 2>>, <<>>) }

RECURSIVE BufsOver(_, _)
BufsOver(S, n) ==
  IF n = 0 THEN {<<>>}
  ELSE {Append(b, v) : b \in BufsOver(S, n - 1), v \in S}

PoolCases ==
  UNION {{[fn |-> "pool", input |-> T4(sh, b), cfg |-> cfg, grad |-> g] :
            b \in BufsOver(CellVals, F32Size(sh)), cfg \in PoolCfgs,
            g \in FinitePatterns} : sh \in PoolShapes}

ConvCases ==
  {[fn |-> "conv", shape |-> <<1, h, w, 1>>,
    cfg |-> Conv2DCfg(1, <<kh, kw>>, st, pd, "none")] :
     h \in 1..MaxDim, w \in 1..MaxDim, kh \in 1..MaxKernel, kw \in 1..MaxKernel,
     st \in {<<>>} \cup ((1..MaxStride) \X (1..MaxStride)),
     pd \in {"valid", "same"}}

\* tensors and the padding a Conv2D layer gives them
PadCases ==
  {[fn |-> "padcrop", input |-> T4(sh, PatBuf(p, F32Size(sh))),
    top |-> pt, bottom |-> pb, left |-> pl, right |-> pr] :
     sh \in {<<1, 2, 2, 1>>, <<1, 1, 2, 2>>, <<2, 2, 1, 1>>}, p \in Patterns,
     pt \in 0..MaxPad, pb \in 0..MaxPad, pl \in 0..MaxPad, pr \in 0..MaxPad}

\* tensors of every batch size up to MaxBatch, for a network <<Input, Flatten>>
FlattenCases ==
  {[fn |-> "flatten", input |-> T4(<<n, h, w, c>>, PatBuf(p, n * h * w * c))] :
     n \in 0..MaxBatch, h \in 1..2, w \in 1..2, c \in 1..2, p \in FinitePatterns}

\* a pool layer built after an Input layer of the tensor's shape, its forward
\* step on the tensor, and its backward step on a gradient of the output's shape
poolPair(input, cfg, grad) ==
  With(buildPoolLayer(cfg, buildInputLayer(InputCfg(input.shape), 0).layer, 0).layer,
       LAMBDA layer :
    With(poolForward(input, layer), LAMBDA f :
      IF f.threw THEN [threw |-> TRUE, layer |-> layer]
      ELSE With(T4(f.out.shape, PatBuf(grad, Len(f.out.buf))), LAMBDA dOut :
           With(poolBackward(dOut, layer, f.cache), LAMBDA b :
             [threw |-> b.threw, layer |-> layer, out |-> f.out,
              mask |-> f.cache.mask, dOut |-> dOut, dX |-> b.dIn]))))

InitFn ==
  /\ pc = "fn"
  /\ configs = <<>>
  /\ opts = DefaultOptions
  /\ layers = <<>>
  /\ rng = 0
  /\ calls = 0
  /\ last = NoCall
  /\ trained = FALSE
  /\ restored = None
  /\ fnIn \in PoolCases \cup ConvCases \cup FlattenCases \cup CliCases \cup ActCases
               \cup PadCases
  /\ fnOut = None
  /\ thrown = None
  /\ heap = None

ApplyPool ==
  /\ pc = "fn"
  /\ fnOut = None
  /\ fnIn.fn = "pool"
  /\ fnOut' = poolPair(fnIn.input, fnIn.cfg, fnIn.grad)
  /\ UNCHANGED <<pc, configs, opts, layers, rng, calls, last, trained, restored, fnIn,
               thrown, heap>>

ApplyConv ==
  /\ pc = "fn"
  /\ fnOut = None
  /\ fnIn.fn = "conv"
  /\ fnOut' = buildConv2DLayer(fnIn.cfg,
                               buildInputLayer(InputCfg(fnIn.shape), 0).layer, 0)
  /\ UNCHANGED <<pc, configs, opts, layers, rng, calls, last, trained, restored, fnIn,
               thrown, heap>>

\* Tensor4D.pad as conv2DForward calls it, then the crop of conv2DBackward
ApplyPadCrop ==
  /\ pc = "fn"
  /\ fnOut = None
  /\ fnIn.fn = "padcrop"
  /\ \E padded \in {pad(fnIn.input, fnIn.top, fnIn.bottom, fnIn.left, fnIn.right)} :
       fnOut' = [padded |-> padded,
                 cropped |-> cropToInput(padded, fnIn.input.shape, fnIn.input.shape[4],
                                         fnIn.top, fnIn.left)]
  /\ UNCHANGED <<pc, configs, opts, layers, rng, calls, last, trained, restored, fnIn,
               thrown, heap>>

\* the forward pass of guess and train on a network <<Input, Flatten>>
ApplyFlatten ==
  /\ pc = "fn"
  /\ fnOut = None
  /\ fnIn.fn = "flatten"
  /\ \E nn \in {NewNeuralNetwork(<<InputCfg(fnIn.input.shape), FlattenCfg>>, 0)} :
       fnOut' = guess(nn.layers, fnIn.input, FALSE)
  /\ UNCHANGED <<pc, configs, opts, layers, rng, calls, last, trained, restored, fnIn,
               thrown, heap>>

ApplyCli ==
  /\ pc = "fn"
  /\ fnOut = None
  /\ fnIn.fn = "cli"
  /\ fnOut' = getCLIOptions(fnIn.argv)
  /\ UNCHANGED <<pc, configs, opts, layers, rng, calls, last, trained, restored, fnIn,
               thrown, heap>>

\* y = f(x) and df(y) of one registry entry
ApplyAct ==
  /\ pc = "fn"
  /\ fnOut = None
  /\ fnIn.fn = "act"
  /\ \E y \in {activationsF(fnIn.name, fnIn.x)} :
       fnOut' = [y |-> y, dy |-> activationsDF(fnIn.name, y)]
  /\ UNCHANGED <<pc, configs, opts, layers, rng, calls, last, trained, restored, fnIn,
               thrown, heap>>

NextFn ==
  ApplyPool \/ ApplyConv \/ ApplyFlatten \/ ApplyCli \/ ApplyAct \/ ApplyPadCrop

SpecFn == InitFn /\ [][NextFn]_vars

-----------------------------------------------------------------------------
(* SpecAlias: the parameter arrays as objects.  heap.mem holds every array  *)
(* by address; heap.nn, heap.ck.refs and heap.rn hold, per layer, the       *)
(* addresses <<weights or kernel, bias>> of the arrays the network, its     *)
(* checkpoint r and the restored network n refer to.  layers and            *)
(* restored.layers show the two networks with the arrays' present contents. *)

\* the parameter arrays of a layer, or of a serialized layer (which holds the
\* kernel as a flat array next to kernelShape)
Arrays(l) ==
  IF l.type = "dense" THEN <<l.weights, l.bias>>
  ELSE IF l.type = "conv2d"
    THEN <<IF "kernelShape" \in DOMAIN l THEN l.kernel ELSE l.kernel.buf, l.bias>>
  ELSE <<>>

SetArrays(l, w, b) ==
  IF l.type = "dense" THEN [l EXCEPT !.weights = w, !.bias = b]
  ELSE IF l.type = "conv2d"
    THEN [l EXCEPT !.kernel = IF "kernelShape" \in DOMAIN l THEN w
                              ELSE T4(l.kernel.shape, w),
                   !.bias = b]
  ELSE l

\* the layers with the contents their arrays have in mem
Deref(ls, refs, mem) ==
  Buf(Len(ls), LAMBDA i : IF refs[i] = <<>> THEN ls[i]
                          ELSE SetArrays(ls[i], mem[refs[i][1]], mem[refs[i][2]]))

\* mem after the arrays at refs were overwritten in place with those of ls
Store(ls, refs, mem) ==
  Buf(Len(mem),
      LAMBDA a :
        IF \E i \in 1..Len(ls), k \in 1..2 : refs[i] # <<>> /\ refs[i][k] = a
          THEN LET q == CHOOSE q \in (1..Len(ls)) \X (1..2) :
                          refs[q[1]] # <<>> /\ refs[q[1]][q[2]] = a
               IN Arrays(ls[q[1]])[q[2]]
          ELSE mem[a])

\* new arrays with the contents of the arrays of ls: [mem, refs]
AllocFor(ls, mem) ==
  [mem |-> mem \o Buf(2 * Len(ls),
                      LAMBDA q : LET l == ls[(q + 1) \div 2]
                                 IN IF Arrays(l) = <<>> THEN <<>>
                                    ELSE Arrays(l)[2 - (q % 2)]),
   refs |-> Buf(Len(ls),
                LAMBDA i : IF Arrays(ls[i]) = <<>> THEN <<>>
                           ELSE <<Len(mem) + 2 * i - 1, Len(mem) + 2 * i>>)]

\* a serialization that hands out the layer's own array
ArrayFromAliased(src, fresh) == src

\* Array.from(l.weights): the address of the array a serialized layer holds,
\* src being the layer's array and fresh a new array with its contents
ArrayFrom(src, fresh) == fresh

AliasNets ==
  { <<InputTemplate, DenseCfg(2, "relu"), DenseCfg(1, "none")>>,
    <<InputTemplate, Conv2DCfg(1, <<2, 2>>, <<>>, "valid", "relu"), FlattenCfg,
      DenseCfg(1, "none")>> }

\* what a caller writes into an array of the checkpoint
WrittenVal == MaxVal + 1

InitAlias ==
  /\ pc = "new"
  /\ configs = <<>>
  /\ opts \in {o \in OptionSets : ~o.debug}
  /\ layers = <<>>
  /\ rng \in 0..(NumSeeds - 1)
  /\ calls = 0
  /\ last = NoCall
  /\ trained = FALSE
  /\ restored = None
  /\ fnIn = None
  /\ fnOut = None
  /\ thrown = None
  /\ heap = [op |-> "new", mem |-> <<>>, nn |-> <<>>, ck |-> None, rn |-> <<>>,
             writes |-> 0]

ConstructAlias ==
  /\ pc = "new"
  /\ \E cfgs \in AliasNets :
       \E b \in {NewNeuralNetwork(cfgs, rng)} :
       \E a \in {AllocFor(b.layers, heap.mem)} :
       /\ configs' = cfgs
       /\ layers' = b.layers
       /\ rng' = b.rng
       /\ pc' = IF b.threw THEN "ctorThrew" ELSE "ready"
       /\ thrown' = IF b.threw THEN [at |-> b.at, err |-> b.err] ELSE None
       /\ heap' = [heap EXCEPT !.op = "new", !.mem = a.mem, !.nn = a.refs]
  /\ UNCHANGED <<opts, calls, last, trained, restored, fnIn, fnOut>>

\* r = nn.checkpoint()
TakeCheckpoint ==
  /\ pc = "ready"
  /\ heap.ck = None
  /\ \E c \in {checkpoint(layers, opts)} :
       \E a \in {AllocFor(c.layers, heap.mem)} :
       heap' = [heap EXCEPT
                  !.op = "checkpoint",
                  !.mem = a.mem,
                  !.ck = [learningRate |-> c.learningRate,
                          layers |-> c.layers,
                          refs |-> Buf(Len(a.refs),
                                       LAMBDA i :
                                         IF a.refs[i] = <<>> THEN <<>>
                                         ELSE <<ArrayFrom(heap.nn[i][1], a.refs[i][1]),
                                                ArrayFrom(heap.nn[i][2], a.refs[i][2])>>)]]
  /\ UNCHANGED <<pc, configs, opts, layers, rng, calls, last, trained, restored, fnIn,
               fnOut, thrown>>

\* the checkpoint with the contents its arrays have now
CheckpointNow ==
  [learningRate |-> heap.ck.learningRate,
   layers |-> Deref(heap.ck.layers, heap.ck.refs, heap.mem)]

\* n = NeuralNetwork.fromCheckpoint(r): the rebuilt layers own new arrays, into
\* which set(Float32Array.from(...)) and new Tensor4D(shape, data) copy
Restore ==
  /\ pc = "ready"
  /\ heap.ck # None
  /\ restored = None
  /\ \E c \in {fromCheckpoint(CheckpointNow, rng)} :
       \E a \in {AllocFor(c.layers, heap.mem)} :
       /\ restored' = [threw |-> c.threw, layers |-> c.layers, opts |-> c.opts]
       /\ rng' = c.rng
       /\ heap' = [heap EXCEPT !.op = "restore", !.mem = a.mem, !.rn = a.refs]
  /\ UNCHANGED <<pc, configs, opts, layers, calls, last, trained, fnIn, fnOut, thrown>>

\* the two networks as mem shows them
ShownBy(mem) ==
  [nn |-> Deref(layers, heap.nn, mem),
   n |-> IF restored = None \/ restored.threw THEN restored
         ELSE [restored EXCEPT !.layers = Deref(restored.layers, heap.rn, mem)]]

\* nn.train(input, target) or n.train(input, target): the updates are written
\* in place into the arrays of the network trained
TrainEither ==
  /\ pc = "ready"
  /\ calls < MaxCalls
  /\ \E who \in {"train", "trainRestored"}, input \in DeclaredInputs, target \in Targets :
       /\ who = "trainRestored" => (restored # None /\ ~restored.threw)
       /\ \E t \in {IF who = "train" THEN train(layers, input, target, opts)
                    ELSE train(restored.layers, input, target, restored.opts)} :
          \E mem \in {Store(t.layers, IF who = "train" THEN heap.nn ELSE heap.rn,
                            heap.mem)} :
          /\ heap' = [heap EXCEPT !.op = who, !.mem = mem]
          /\ layers' = ShownBy(mem).nn
          /\ restored' = ShownBy(mem).n
          /\ last' = [op |-> "train", input |-> input, target |-> target,
                      threw |-> t.threw, outs |-> t.outs,
                      before |-> IF who = "train" THEN layers ELSE restored.layers,
                      seed |-> t.seed, steps |-> t.steps]
  /\ calls' = calls + 1
  /\ trained' = TRUE
  /\ UNCHANGED <<pc, configs, opts, rng, fnIn, fnOut, thrown>>

\* a caller writes one value into one array of the checkpoint r
WriteCheckpoint ==
  /\ pc = "ready"
  /\ heap.ck # None
  /\ heap.writes < MaxWrites
  /\ \E i \in 1..Len(heap.ck.refs), k \in 1..2 :
       /\ heap.ck.refs[i] # <<>>
       /\ Len(heap.mem[heap.ck.refs[i][k]]) > 0
       /\ \E mem \in {[heap.mem EXCEPT ![heap.ck.refs[i][k]][1] = WrittenVal]} :
          /\ heap' = [heap EXCEPT !.op = "write", !.mem = mem,
                                  !.writes = heap.writes + 1]
          /\ layers' = ShownBy(mem).nn
          /\ restored' = ShownBy(mem).n
  /\ UNCHANGED <<pc, configs, opts, rng, calls, last, trained, fnIn, fnOut, thrown>>

NextAlias ==
  ConstructAlias \/ TakeCheckpoint \/ Restore \/ TrainEither \/ WriteCheckpoint

SpecAlias == InitAlias /\ [][NextAlias]_vars

-----------------------------------------------------------------------------
(* SpecBuf: which arrays one guess or train call writes.  An array is named *)
(* <<i, field>>, the array the step of layer i allocates or the parameter   *)
(* array layer i owns; <<0, "input">> and <<0, "target">> are the caller's. *)
(* heap holds the call: its position, the array flowing between the steps,  *)
(* the caches stored so far, the arrays written, and those written after    *)
(* they had been stored in a cache.                                         *)

NoBuf == <<0, "none">>
CallerInput == <<0, "input">>
CallerTarget == <<0, "target">>

Cache(input, z, padded, kernel, postAct, mask) ==
  [input |-> input, z |-> z, padded |-> padded, kernel |-> kernel,
   postAct |-> postAct, mask |-> mask]
NoCache == Cache(NoBuf, NoBuf, NoBuf, NoBuf, NoBuf, NoBuf)

\* the arrays a cache refers to, and those all the caches of a ctx refer to
CacheBufs(c) == {c[f] : f \in DOMAIN c} \ {NoBuf}
Cached(ctx) == UNION {CacheBufs(ctx[j]) : j \in 1..Len(ctx)}

StepBufs(writes, cache, out, kind) ==
  [threw |-> FALSE, writes |-> writes, cache |-> cache, out |-> out, kind |-> kind]
StepThrew == [threw |-> TRUE, writes |-> {}, cache |-> NoCache, out |-> NoBuf, kind |-> "vec"]

\* softmax(z) and Tensor4D.slice are not among the sources: their result is a
\* new array (fresh) or the array they were given
denseForwardBufs(cfg, i, current, kind, fresh) ==
  LET arr == IF kind = "t4" THEN <<i, "arr">> ELSE current
      z == <<i, "z">>
      out == IF cfg.activation = "softmax" /\ ~fresh THEN z ELSE <<i, "out">>
  IN StepBufs(({arr} \ {current}) \cup {z, out}, Cache(arr, z, NoBuf, NoBuf, NoBuf, NoBuf),
              out, "vec")

conv2DForwardBufs(i, current, kind) ==
  IF kind # "t4" THEN StepThrew
  ELSE StepBufs({<<i, "padded">>, <<i, "out">>},
                Cache(current, NoBuf, <<i, "padded">>, <<i, "kernel">>, <<i, "out">>, NoBuf),
                <<i, "out">>, "t4")

poolForwardBufs(i, current, kind) ==
  IF kind # "t4" THEN StepThrew
  ELSE StepBufs({<<i, "out">>, <<i, "mask">>},
                Cache(current, NoBuf, NoBuf, NoBuf, NoBuf, <<i, "mask">>),
                <<i, "out">>, "t4")

flattenForwardBufs(i, current, kind, fresh) ==
  IF kind # "t4" THEN StepThrew
  ELSE IF fresh THEN StepBufs({<<i, "out">>}, NoCache, <<i, "out">>, "vec")
  ELSE StepBufs({}, NoCache, current, "vec")

forwardLayerBufs(cfg, i, input, kind, fresh) ==
  CASE cfg.type = "input" -> StepBufs({}, NoCache, input, kind)
    [] cfg.type = "conv2d" -> conv2DForwardBufs(i, input, kind)
    [] cfg.type = "pool" -> poolForwardBufs(i, input, kind)
    [] cfg.type = "flatten" -> flattenForwardBufs(i, input, kind, fresh)
    [] OTHER -> denseForwardBufs(cfg, i, input, kind, fresh)

\* const dZ = new Float32Array(outSize)
denseBackwardDZInPlace(i, cache) == cache.z
denseBackwardDZ(i, cache) == <<i, "dZ">>

denseBackwardBufs(i, kind, cache) ==
  IF kind # "vec" THEN StepThrew
  ELSE StepBufs({denseBackwardDZ(i, cache), <<i, "dW">>, <<i, "dB">>, <<i, "dX">>,
                 <<i, "weights">>, <<i, "bias">>},
                cache, <<i, "dX">>, "vec")

conv2DBackwardBufs(i, kind, cache) ==
  IF kind # "t4" THEN StepThrew
  ELSE StepBufs({<<i, "dZ">>, <<i, "dKernel">>, <<i, "dBias">>, <<i, "dPad">>,
                 <<i, "dInput">>, <<i, "bias">>, cache.kernel},
                cache, <<i, "dInput">>, "t4")

poolBackwardBufs(i, kind, cache) ==
  IF kind # "t4" THEN StepThrew
  ELSE StepBufs({<<i, "dX">>}, cache, <<i, "dX">>, "t4")

\* const out = new Tensor4D([N, H, W, C]), called dIn here: the forward step of the
\* layer has an out of its own
flattenBackwardBufs(i, kind, cache) ==
  IF kind # "vec" THEN StepThrew
  ELSE StepBufs({<<i, "dIn">>}, cache, <<i, "dIn">>, "t4")

backwardLayerBufs(cfg, i, dOut, kind, cache) ==
  CASE cfg.type = "input" -> StepBufs({}, cache, dOut, kind)
    [] cfg.type = "conv2d" -> conv2DBackwardBufs(i, kind, cache)
    [] cfg.type = "pool" -> poolBackwardBufs(i, kind, cache)
    [] cfg.type = "flatten" -> flattenBackwardBufs(i, kind, cache)
    [] OTHER -> denseBackwardBufs(i, kind, cache)

InitBuf ==
  /\ pc = "call"
  /\ configs \in Catalogue
  /\ opts = DefaultOptions
  /\ layers = <<>>
  /\ rng = 0
  /\ calls = 0
  /\ last = NoCall
  /\ trained = FALSE
  /\ restored = None
  /\ fnIn = None
  /\ fnOut = None
  /\ thrown = None
  /\ \E call \in {"guess", "train"}, kind \in {"vec", "t4"} :
       heap = [k |-> "bufs", call |-> call, phase |-> "forward", i |-> 1,
               cur |-> CallerInput, kind |-> kind, ctx |-> <<>>,
               written |-> {}, late |-> {}]

\* what one step does to the call: the arrays it writes, among them those an
\* earlier step stored in a cache
AfterStep(r, ctx, phase, i) ==
  [heap EXCEPT !.phase = phase, !.i = i, !.cur = r.out, !.kind = r.kind, !.ctx = ctx,
               !.written = @ \cup r.writes,
               !.late = @ \cup (r.writes \cap Cached(heap.ctx))]

\* forwardPass: one iteration of the loop over the layers
ForwardStep ==
  /\ pc = "call"
  /\ heap.phase = "forward"
  /\ \E fresh \in BOOLEAN :
       \E r \in {forwardLayerBufs(configs[heap.i], heap.i, heap.cur, heap.kind, fresh)} :
         heap' = IF r.threw THEN [heap EXCEPT !.phase = "threw"]
                 ELSE AfterStep(r, Append(heap.ctx, r.cache),
                                IF heap.i < Len(configs) THEN "forward"
                                ELSE IF heap.call = "guess" THEN "done" ELSE "seed",
                                heap.i + 1)
  /\ UNCHANGED <<pc, configs, opts, layers, rng, calls, last, trained, restored, fnIn,
               fnOut, thrown>>

\* train: the seed dOut, a new array in both branches
SeedStep ==
  /\ pc = "call"
  /\ heap.phase = "seed"
  /\ heap' = AfterStep(StepBufs({<<0, "dOut">>}, NoCache, <<0, "dOut">>, "vec"),
                       heap.ctx, "backward", Len(configs))
  /\ UNCHANGED <<pc, configs, opts, layers, rng, calls, last, trained, restored, fnIn,
               fnOut, thrown>>

\* train: one iteration of the backward loop
BackwardStep ==
  /\ pc = "call"
  /\ heap.phase = "backward"
  /\ \E r \in {backwardLayerBufs(configs[heap.i], heap.i, heap.cur, heap.kind,
                                 heap.ctx[heap.i])} :
       heap' = IF r.threw THEN [heap EXCEPT !.phase = "threw"]
               ELSE AfterStep(r, heap.ctx, IF heap.i > 1 THEN "backward" ELSE "done",
                              heap.i - 1)
  /\ UNCHANGED <<pc, configs, opts, layers, rng, calls, last, trained, restored, fnIn,
               fnOut, thrown>>

NextBuf == ForwardStep \/ SeedStep \/ BackwardStep

SpecBuf == InitBuf /\ [][NextBuf]_vars

-----------------------------------------------------------------------------
(* SpecTrainer: one Trainer.train call over a dataset built by              *)
(* DatasetBuilder.  heap holds the call: its options, the epoch, the        *)
(* position in the epoch, the sampler's shuffled order and the batches it   *)
(* has yielded, and the log of what the call has done so far.               *)

\* bytes of one image
IMG_SIZE == 784

ClassNames == <<"cat", "dog", "owl">>

\* the ClassInfo DatasetBuilder.create builds for class i with trainCount samples
ClassInfoOf(i, trainCount) ==
  [id |-> i - 1, name |-> ClassNames[i],
   train |-> [count |-> trainCount,
              offsets |-> [k \in 1..trainCount |-> (k - 1) * IMG_SIZE]]]

Manifests ==
  {[i \in 1..Len(ClassNames) |-> ClassInfoOf(i, counts[i])] :
     counts \in [1..Len(ClassNames) -> 0..MaxCount]}

\* batches(): the order array before the shuffle
RECURSIVE orderFrom(_, _)
orderFrom(classes, i) ==
  IF i > Len(classes) THEN <<>>
  ELSE [k \in 1..classes[i].train.count |->
          [c |-> classes[i].id, off |-> classes[i].train.offsets[k]]]
       \o orderFrom(classes, i + 1)

Swap(order, i, j) == [order EXCEPT ![i] = order[j], ![j] = order[i]]

\* "Shuffle each epoch": every outcome of the loop, i running down to the
\* second entry and j drawn from the entries up to i
RECURSIVE shuffles(_, _)
shuffles(order, i) ==
  IF i <= 1 THEN {order}
  ELSE UNION {shuffles(Swap(order, i, j), i - 1) : j \in 1..i}

\* order.slice(i, i + B)
orderSliceWithoutPartial(order, i, B) ==
  IF i + B <= Len(order) THEN SubSeq(order, i + 1, i + B) ELSE <<>>
orderSlice(order, i, B) ==
  SubSeq(order, i + 1, IF i + B <= Len(order) THEN i + B ELSE Len(order))

\* the batch yielded for a slice: x holds the samples row by row (xLen values),
\* y is the Float32Array of effB * C labels
batchOf(picked, C) ==
  [x |-> picked, xLen |-> Len(picked) * IMG_SIZE,
   y |-> [q \in 1..(Len(picked) * C) |->
            IF \E b \in 1..Len(picked) : q - 1 = (b - 1) * C + picked[b].c THEN 1 ELSE 0]]

\* Trainer.train: the B it derives from a batch, and row i of y
trainerRows(batch, C) == batch.xLen \div (batch.xLen \div (Len(batch.y) \div C))
labelRow(batch, C, i) == SubSeq(batch.y, i * C + 1, (i + 1) * C)

NoSample == [c |-> -1, off |-> -1]
Event(ev, e, x, y) == [ev |-> ev, e |-> e, x |-> x, y |-> y]
Logged(ev, e) == Append(heap.log, Event(ev, e, NoSample, <<>>))

\* (e + 1) % checkpointEvery === 0
checkpointDueOnEpochIndex(e, checkpointEvery) == e % checkpointEvery = 0
checkpointDue(e, checkpointEvery) == (e + 1) % checkpointEvery = 0

InitTrainer ==
  /\ pc = "trainer"
  /\ configs = <<>>
  /\ opts = DefaultOptions
  /\ layers = <<>>
  /\ rng = 0
  /\ calls = 0
  /\ last = NoCall
  /\ trained = FALSE
  /\ restored = None
  /\ fnIn = None
  /\ fnOut = None
  /\ thrown = None
  /\ \E classes \in Manifests, batchSize \in 1..2, epochs \in 1..MaxEpochs,
        checkpointEvery \in 1..MaxEpochs, withPath \in BOOLEAN :
       heap = [k |-> "trainer", classes |-> classes, batchSize |-> batchSize,
               epochs |-> epochs, checkpointEvery |-> checkpointEvery,
               withPath |-> withPath, e |-> 0, at |-> "epoch", order |-> <<>>, i |-> 0,
               batch |-> batchOf(<<>>, 0), row |-> 0, yielded |-> <<>>, log |-> <<>>]

\* the head of the epoch loop: onEpochStart and a fresh sampler, whose batches()
\* builds and shuffles its order when the loop first asks for a batch
EpochStart ==
  /\ pc = "trainer"
  /\ heap.at = "epoch"
  /\ heap.e < heap.epochs
  /\ \E order \in shuffles(orderFrom(heap.classes, 1),
                          Len(orderFrom(heap.classes, 1))) :
       heap' = [heap EXCEPT !.at = "sampler", !.order = order, !.i = 0,
                            !.yielded = <<>>, !.log = Logged("onEpochStart", heap.e)]
  /\ UNCHANGED <<pc, configs, opts, layers, rng, calls, last, trained, restored, fnIn,
               fnOut, thrown>>

\* batches(): one iteration of "for (let i = 0; i < order.length; i += B)"
YieldBatch ==
  /\ pc = "trainer"
  /\ heap.at = "sampler"
  /\ heap.i < Len(heap.order)
  /\ \E b \in {batchOf(orderSlice(heap.order, heap.i, heap.batchSize),
                      Len(heap.classes))} :
       heap' = [heap EXCEPT !.at = "batch", !.batch = b, !.row = 0,
                            !.i = @ + heap.batchSize, !.yielded = Append(@, b)]
  /\ UNCHANGED <<pc, configs, opts, layers, rng, calls, last, trained, restored, fnIn,
               fnOut, thrown>>

\* one iteration of "for (let i = 0; i < B; i++)": nn.train(input, yi), which
\* may throw and end the call
TrainSample ==
  /\ pc = "trainer"
  /\ heap.at = "batch"
  /\ heap.row < trainerRows(heap.batch, Len(heap.classes))
  /\ \E throws \in BOOLEAN :
       heap' = [heap EXCEPT
                  !.at = IF throws THEN "rejected" ELSE "batch",
                  !.row = @ + 1,
                  !.log = Append(@, Event("train", heap.e, heap.batch.x[heap.row + 1],
                                         labelRow(heap.batch, Len(heap.classes),
                                                  heap.row)))]
  /\ UNCHANGED <<pc, configs, opts, layers, rng, calls, last, trained, restored, fnIn,
               fnOut, thrown>>

\* the end of a batch: onBatchEnd, the scheduler's tick, back to the sampler
BatchEnd ==
  /\ pc = "trainer"
  /\ heap.at = "batch"
  /\ heap.row >= trainerRows(heap.batch, Len(heap.classes))
  /\ heap' = [heap EXCEPT !.at = "sampler"]
  /\ UNCHANGED <<pc, configs, opts, layers, rng, calls, last, trained, restored, fnIn,
               fnOut, thrown>>

NextEpoch == [heap EXCEPT !.at = "epoch", !.e = @ + 1]

\* the sampler is exhausted: onEpochEnd, then the checkpoint when it is due
EpochEnd ==
  /\ pc = "trainer"
  /\ heap.at = "sampler"
  /\ heap.i >= Len(heap.order)
  /\ heap' = [(IF checkpointDue(heap.e, heap.checkpointEvery)
                 THEN [heap EXCEPT !.at = "checkpoint"] ELSE NextEpoch)
              EXCEPT !.log = Logged("onEpochEnd", heap.e)]
  /\ UNCHANGED <<pc, configs, opts, layers, rng, calls, last, trained, restored, fnIn,
               fnOut, thrown>>

\* const ckpt = this.nn.checkpoint(); await callbacks.onCheckpoint?.(e, ckpt)
TakeEpochCheckpoint ==
  /\ pc = "trainer"
  /\ heap.at = "checkpoint"
  /\ heap' = [(IF heap.withPath THEN [heap EXCEPT !.at = "write"] ELSE NextEpoch)
              EXCEPT !.log = Append(Logged("checkpoint", heap.e),
                                    Event("onCheckpoint", heap.e, NoSample, <<>>))]
  /\ UNCHANGED <<pc, configs, opts, layers, rng, calls, last, trained, restored, fnIn,
               fnOut, thrown>>

\* await this.saveCheckpointToFile(e, file)
WriteCheckpointFile ==
  /\ pc = "trainer"
  /\ heap.at = "write"
  /\ heap' = [NextEpoch EXCEPT !.log = Logged("writeFile", heap.e)]
  /\ UNCHANGED <<pc, configs, opts, layers, rng, calls, last, trained, restored, fnIn,
               fnOut, thrown>>

NextTrainer ==
  \/ EpochStart
  \/ YieldBatch
  \/ TrainSample
  \/ BatchEnd
  \/ EpochEnd
  \/ TakeEpochCheckpoint
  \/ WriteCheckpointFile

SpecTrainer == InitTrainer /\ [][NextTrainer]_vars

-----------------------------------------------------------------------------
(* SpecSource: one NodeFileSource with readSample calls and one close call   *)
(* in flight together.  Every await is a point where another call may run.   *)
(* heap.cache is fhCache, a Map, as its entries in insertion order;          *)
(* heap.handles are the file handles fs.open has returned, in order.         *)

BinPaths == {"cat.bin", "dog.bin"}

NoHandle == 0

\* fhCache.get(full)
cacheGet(cache, full) ==
  IF \E n \in DOMAIN cache : cache[n].key = full
    THEN cache[CHOOSE n \in DOMAIN cache : cache[n].key = full].fh
    ELSE NoHandle

\* fhCache.set(full, fh): a key the map holds keeps its place
cacheSet(cache, full, fh) ==
  IF \E n \in DOMAIN cache : cache[n].key = full
    THEN [n \in DOMAIN cache |->
            IF cache[n].key = full THEN [key |-> full, fh |-> fh] ELSE cache[n]]
    ELSE Append(cache, [key |-> full, fh |-> fh])

InFlight(c) == heap.reads[c].at \in {"opening", "reading"}

InitSource ==
  /\ pc = "source"
  /\ configs = <<>>
  /\ opts = DefaultOptions
  /\ layers = <<>>
  /\ rng = 0
  /\ calls = 0
  /\ last = NoCall
  /\ trained = FALSE
  /\ restored = None
  /\ fnIn = None
  /\ fnOut = None
  /\ thrown = None
  /\ heap = [k |-> "source", cache |-> <<>>, handles |-> <<>>,
             reads |-> [c \in 1..MaxReads |-> [p |-> "", at |-> "idle", fh |-> NoHandle]],
             closing |-> "no", it |-> 0, closingFh |-> NoHandle, overlapped |-> FALSE]

\* readSample up to its first await: a hit goes on to fh.read, a miss to fs.open
StartRead ==
  /\ pc = "source"
  /\ \E c \in 1..MaxReads, full \in BinPaths :
       /\ heap.reads[c].at = "idle"
       /\ \A d \in 1..(c - 1) : heap.reads[d].at # "idle"
       /\ heap' = [heap EXCEPT
                     !.reads[c] =
                        [p |-> full,
                         at |-> IF cacheGet(heap.cache, full) # NoHandle
                                  THEN "reading" ELSE "opening",
                         fh |-> cacheGet(heap.cache, full)],
                     !.overlapped = @ \/ heap.closing = "running"
                                      \/ \E d \in 1..MaxReads : InFlight(d)]
  /\ UNCHANGED <<pc, configs, opts, layers, rng, calls, last, trained, restored, fnIn,
               fnOut, thrown>>

\* fs.open resolves: fh = the new handle; this.fhCache.set(full, fh)
OpenResolves ==
  /\ pc = "source"
  /\ \E c \in 1..MaxReads :
       /\ heap.reads[c].at = "opening"
       /\ heap' = [heap EXCEPT
                     !.handles = Append(@, [p |-> heap.reads[c].p, open |-> TRUE]),
                     !.cache = cacheSet(@, heap.reads[c].p, Len(heap.handles) + 1),
                     !.reads[c].fh = Len(heap.handles) + 1,
                     !.reads[c].at = "reading"]
  /\ UNCHANGED <<pc, configs, opts, layers, rng, calls, last, trained, restored, fnIn,
               fnOut, thrown>>

\* fh.read settles (it rejects on a handle close() has closed): the call ends
ReadSettles ==
  /\ pc = "source"
  /\ \E c \in 1..MaxReads :
       /\ heap.reads[c].at = "reading"
       /\ heap' = [heap EXCEPT !.reads[c].at = "done"]
  /\ UNCHANGED <<pc, configs, opts, layers, rng, calls, last, trained, restored, fnIn,
               fnOut, thrown>>

\* close() up to its first await: the first entry's handle, or nothing to close
CloseStart ==
  /\ pc = "source"
  /\ heap.closing = "no"
  /\ heap' = [heap EXCEPT
                !.closing = IF heap.cache = <<>> THEN "done" ELSE "running",
                !.it = 1,
                !.closingFh = IF heap.cache = <<>> THEN NoHandle ELSE heap.cache[1].fh,
                !.overlapped = @ \/ \E d \in 1..MaxReads : InFlight(d)]
  /\ UNCHANGED <<pc, configs, opts, layers, rng, calls, last, trained, restored, fnIn,
               fnOut, thrown>>

\* fh.close() settles; the loop goes on to the next entry of the live map, or
\* ends with this.fhCache.clear()
CloseResumes ==
  /\ pc = "source"
  /\ heap.closing = "running"
  /\ heap' = [heap EXCEPT
                !.handles[heap.closingFh].open = FALSE,
                !.it = @ + 1,
                !.closingFh = IF heap.it < Len(heap.cache)
                                THEN heap.cache[heap.it + 1].fh ELSE NoHandle,
                !.cache = IF heap.it < Len(heap.cache) THEN @ ELSE <<>>,
                !.closing = IF heap.it < Len(heap.cache) THEN "running" ELSE "done"]
  /\ UNCHANGED <<pc, configs, opts, layers, rng, calls, last, trained, restored, fnIn,
               fnOut, thrown>>

NextSource ==
  \/ StartRead
  \/ OpenResolves
  \/ ReadSettles
  \/ CloseStart
  \/ CloseResumes

SpecSource == InitSource /\ [][NextSource]_vars

-----------------------------------------------------------------------------
(* SpecDraw: one DrawingApp and the DOM events it listens to.  heap holds    *)
(* the app's fields, the two buttons' disabled flags, the keydown handler's  *)
(* controlPressed, the canvas image (the number of marks made on it) and the *)
(* last event delivered.                                                      *)

Targets2D == {"canvas", "other"}
Keys == {"Control", "z", "y", "a"}

\* makeMark
makeMark(screen) == screen + 1

\* lines 141-146 without the flag, which are lines 165-170 without the flag
startStrokeKeepingRedo(app) ==
  [app EXCEPT !.snapshots = Append(@, app.screen),
              !.undoDisabled = FALSE,
              !.redoDisabled = TRUE,
              !.screen = makeMark(app.screen)]
startStroke(app) ==
  [app EXCEPT !.snapshots = Append(@, app.screen),
              !.undoDisabled = FALSE,
              !.redoDisabled = TRUE,
              !.redosnaps = <<>>,
              !.screen = makeMark(app.screen)]

Pop(stack) == SubSeq(stack, 1, Len(stack) - 1)

undo(app) ==
  IF app.snapshots = <<>> THEN [app EXCEPT !.undoDisabled = TRUE]
  ELSE [app EXCEPT !.screen = app.snapshots[Len(app.snapshots)],
                   !.snapshots = Pop(@),
                   !.redosnaps = Append(@, app.screen),
                   !.redoDisabled = FALSE,
                   !.undoDisabled = IF Len(app.snapshots) = 1 THEN TRUE ELSE @]

redo(app) ==
  IF app.redosnaps = <<>> THEN [app EXCEPT !.redoDisabled = TRUE]
  ELSE [app EXCEPT !.screen = app.redosnaps[Len(app.redosnaps)],
                   !.redosnaps = Pop(@),
                   !.snapshots = Append(@, app.screen),
                   !.undoDisabled = FALSE,
                   !.redoDisabled = IF Len(app.redosnaps) = 1 THEN TRUE ELSE @]

Delivered(app, ev, target) == [app EXCEPT !.ev = ev, !.target = target]

\* room for one more stroke and one more mark
RoomToDraw == heap.screen < MaxMarks
RoomForStroke == RoomToDraw /\ Len(heap.snapshots) + Len(heap.redosnaps) < MaxSnaps

InitDraw ==
  /\ pc = "draw"
  /\ configs = <<>>
  /\ opts = DefaultOptions
  /\ layers = <<>>
  /\ rng = 0
  /\ calls = 0
  /\ last = NoCall
  /\ trained = FALSE
  /\ restored = None
  /\ fnIn = None
  /\ fnOut = None
  /\ thrown = None
  /\ heap = [k |-> "draw", mouseDown |-> FALSE, touchDown |-> FALSE,
             snapshots |-> <<>>, redosnaps |-> <<>>,
             undoDisabled |-> TRUE, redoDisabled |-> TRUE,
             controlPressed |-> FALSE, screen |-> 0, ev |-> "", target |-> ""]

onMouseDown ==
  /\ pc = "draw"
  /\ \E target \in Targets2D :
       /\ heap.touchDown \/ target # "canvas" \/ RoomForStroke
       /\ heap' = Delivered(IF heap.touchDown \/ target # "canvas" THEN heap
                            ELSE [startStroke(heap) EXCEPT !.mouseDown = TRUE],
                            "mousedown", target)
  /\ UNCHANGED <<pc, configs, opts, layers, rng, calls, last, trained, restored, fnIn,
               fnOut, thrown>>

onMoveMouse ==
  /\ pc = "draw"
  /\ heap.touchDown \/ ~heap.mouseDown \/ RoomToDraw
  /\ heap' = Delivered(IF heap.touchDown \/ ~heap.mouseDown THEN heap
                       ELSE [heap EXCEPT !.screen = makeMark(@)],
                       "mousemove", "canvas")
  /\ UNCHANGED <<pc, configs, opts, layers, rng, calls, last, trained, restored, fnIn,
               fnOut, thrown>>

onMouseUp ==
  /\ pc = "draw"
  /\ \E target \in Targets2D :
       heap' = Delivered([heap EXCEPT !.mouseDown = FALSE], "mouseup", target)
  /\ UNCHANGED <<pc, configs, opts, layers, rng, calls, last, trained, restored, fnIn,
               fnOut, thrown>>

onTouchStart ==
  /\ pc = "draw"
  /\ \E target \in Targets2D :
       /\ target # "canvas" \/ RoomForStroke
       /\ heap' = Delivered(IF target # "canvas" THEN heap
                            ELSE [startStroke(heap) EXCEPT !.touchDown = TRUE],
                            "touchstart", target)
  /\ UNCHANGED <<pc, configs, opts, layers, rng, calls, last, trained, restored, fnIn,
               fnOut, thrown>>

onTouchMove ==
  /\ pc = "draw"
  /\ ~heap.touchDown \/ RoomToDraw
  /\ heap' = Delivered(IF ~heap.touchDown THEN heap
                       ELSE [heap EXCEPT !.screen = makeMark(@)],
                       "touchmove", "canvas")
  /\ UNCHANGED <<pc, configs, opts, layers, rng, calls, last, trained, restored, fnIn,
               fnOut, thrown>>

\* the touchend listener of the constructor
onTouchEnd ==
  /\ pc = "draw"
  /\ \E target \in Targets2D :
       heap' = Delivered([heap EXCEPT !.mouseDown = FALSE], "touchend", target)
  /\ UNCHANGED <<pc, configs, opts, layers, rng, calls, last, trained, restored, fnIn,
               fnOut, thrown>>

\* the keydown listener of the constructor
onKeyDown ==
  /\ pc = "draw"
  /\ \E key \in Keys :
       LET pressed == heap.controlPressed \/ key = "Control"
           app == [heap EXCEPT !.controlPressed = pressed]
       IN  heap' = Delivered(IF key = "z" /\ pressed THEN undo(app)
                             ELSE IF key = "y" /\ pressed THEN redo(app)
                             ELSE app,
                             "keydown", key)
  /\ UNCHANGED <<pc, configs, opts, layers, rng, calls, last, trained, restored, fnIn,
               fnOut, thrown>>

onKeyUp ==
  /\ pc = "draw"
  /\ \E key \in Keys :
       heap' = Delivered([heap EXCEPT !.controlPressed =
                                        IF key = "Control" THEN FALSE ELSE @],
                         "keyup", key)
  /\ UNCHANGED <<pc, configs, opts, layers, rng, calls, last, trained, restored, fnIn,
               fnOut, thrown>>

\* a click on the "<< Un-do" button, which a disabled button does not get
clickUndo ==
  /\ pc = "draw"
  /\ ~heap.undoDisabled
  /\ heap' = Delivered(undo(heap), "click", "undo")
  /\ UNCHANGED <<pc, configs, opts, layers, rng, calls, last, trained, restored, fnIn,
               fnOut, thrown>>

\* a click on the "Re-do >>" button
clickRedo ==
  /\ pc = "draw"
  /\ ~heap.redoDisabled
  /\ heap' = Delivered(redo(heap), "click", "redo")
  /\ UNCHANGED <<pc, configs, opts, layers, rng, calls, last, trained, restored, fnIn,
               fnOut, thrown>>

NextDraw ==
  \/ onMouseDown
  \/ onMoveMouse
  \/ onMouseUp
  \/ onTouchStart
  \/ onTouchMove
  \/ onTouchEnd
  \/ onKeyDown
  \/ onKeyUp
  \/ clickUndo
  \/ clickRedo

SpecDraw == InitDraw /\ [][NextDraw]_vars

-----------------------------------------------------------------------------
(* Properties *)

Abs(v) == IF v < 0 THEN 0 - v ELSE v

TrainSteps == IF last.op = "train" THEN 1..Len(last.steps) ELSE {}

\* the layer a backward step of the last train call worked on, as it was before
StepLayer(k) == last.before[last.steps[k].layer]

\* C1: in every train call, every gradient value a Dense layer's parameter
\* update used (each dW[i,j] and each dB[i]) has magnitude at most 1.
C1_DenseUpdateGradientsClipped ==
  \A k \in TrainSteps :
    StepLayer(k).type = "dense" =>
      \A q \in 1..Len(last.steps[k].used) :
        IsFinite(last.steps[k].used[q]) => Abs(last.steps[k].used[q]) <= 1

C1_Witness ==
  /\ last.op = "train"
  /\ ~last.threw
  /\ last.input \in DeclaredInputs
  /\ \E k \in TrainSteps :
       /\ StepLayer(k).type = "dense"
       /\ \E q \in 1..Len(last.steps[k].used) :
            IsFinite(last.steps[k].used[q]) /\ Abs(last.steps[k].used[q]) > 1
       /\ layers[last.steps[k].layer].weights # StepLayer(k).weights

\* C2: for a network that has not been trained since it was built,
\* fromCheckpoint(checkpoint()) succeeds, and on every input of the declared
\* shape the restored network's guess equals the original network's guess.
C2_CheckpointRoundTrip ==
  (pc = "ready" /\ restored # None /\ ~trained) =>
    /\ ~restored.threw
    /\ \A input \in DeclaredInputs :
         guess(restored.layers, input, restored.opts.debug)
           = guess(layers, input, opts.debug)

C2_Witness ==
  /\ pc = "ready"
  /\ restored # None
  /\ ~trained
  /\ ~restored.threw
  /\ \E i \in 1..Len(layers) :
       /\ layers[i].type = "conv2d"
       /\ layers[i].padBottom = 1
       /\ restored.layers[i].padBottom = 0
  /\ \E input \in DeclaredInputs :
       /\ ~guess(layers, input, opts.debug).threw
       /\ guess(restored.layers, input, restored.opts.debug)
            # guess(layers, input, opts.debug)

\* the post-activation output the forward pass of the last call recorded for
\* the layer of backward step k
PostActivation(k) == last.outs[last.steps[k].layer].buf

\* C3: in every backward step of a Dense or Conv2D layer with an activation,
\* the values the derivative df was applied to are the layer's post-activation
\* outputs f(z).
C3_DfOnPostActivation ==
  \A k \in TrainSteps :
    (StepLayer(k).type \in {"dense", "conv2d"} /\ last.steps[k].dfArgs # <<>>) =>
      last.steps[k].dfArgs = PostActivation(k)

C3_Witness ==
  /\ last.op = "train"
  /\ last.input \in DeclaredInputs
  /\ \E k \in TrainSteps :
       /\ StepLayer(k).type = "dense"
       /\ StepLayer(k).activation = "relu"
       /\ \E i \in 1..Len(last.steps[k].dfArgs) :
            last.steps[k].dfArgs[i] < 0 /\ PostActivation(k)[i] = 0

\* the input of a call disagrees with the shape the first (Input) layer declares
Disagrees(input, ls) ==
  IF IsT4(input) THEN input.shape # ls[1].shape
  ELSE Len(input.buf) # getOutputSizeOf(ls[1])

MismatchedCall == last.op # "none" /\ Disagrees(last.input, last.before)

\* C4: a guess or train call whose input disagrees with the declared input
\* shape throws; it never returns normally.
C4_MismatchedInputThrows == MismatchedCall => last.threw

C4_Witness ==
  /\ last.op = "guess"
  /\ IsVec(last.input)
  /\ Len(last.input.buf) > getOutputSizeOf(last.before[1])
  /\ ~last.threw
  /\ ~AnyNonFinite(last.outs[Len(last.outs)].buf)

\* C5: a train call whose input disagrees with the declared input shape leaves
\* every layer's weights, kernel and bias as they were before the call.
C5_MismatchedTrainNoEffect ==
  (MismatchedCall /\ last.op = "train") => layers = last.before

C5_Witness ==
  /\ last.op = "train"
  /\ IsVec(last.input)
  /\ Len(last.input.buf) < getOutputSizeOf(last.before[1])
  /\ last.threw
  /\ \E i \in 1..Len(layers) :
       /\ layers[i].type = "dense"
       /\ layers[i].weights # last.before[i].weights
       /\ AnyNaN(layers[i].weights)

HasNonFinite(g) == g # None /\ AnyNonFinite(g.buf)

\* C6: when the backward step of any layer returns a gradient, vector or
\* tensor, that holds NaN or an infinity, the train call throws.
C6_NonFiniteGradientThrows ==
  (\E k \in TrainSteps : ~last.steps[k].threw /\ HasNonFinite(last.steps[k].dIn))
    => last.threw

C6_Witness ==
  /\ last.op = "train"
  /\ last.input \in DeclaredInputs
  /\ ~last.threw
  /\ \E k \in TrainSteps :
       /\ StepLayer(k).type = "conv2d"
       /\ IsT4(last.steps[k].dIn)
       /\ AnyNaN(last.steps[k].dIn.buf)

PoolDone == pc = "fn" /\ fnIn.fn = "pool" /\ fnOut # None

\* the flat input indices of the pooling window of output position m
WindowOf(m) ==
  LET sh == fnIn.input.shape
      q == CoordOf(fnOut.out.shape, m - 1)
      l == fnOut.layer
  IN {idx(sh, q[1], q[2] * l.strideH + wy, q[3] * l.strideW + wx, q[4]) :
        wy \in 0..(l.windowH - 1), wx \in 0..(l.windowW - 1)}

\* every pooling window holds a value that compares greater than -Infinity
EveryWindowHasMax ==
  \A m \in 1..Len(fnOut.mask) :
    \E j \in WindowOf(m) : FGt(BufGet(fnIn.input.buf, j), NegInf)

NonOverlapping ==
  fnOut.layer.strideH >= fnOut.layer.windowH
    /\ fnOut.layer.strideW >= fnOut.layer.windowW

\* each output gradient goes to the input position the mask records for it,
\* nothing else is written, and without overlap the totals agree
RoutedByMask ==
  /\ ~fnOut.threw
  /\ \A m \in 1..Len(fnOut.mask) : fnOut.mask[m] \in WindowOf(m)
  /\ \A j \in 1..Len(fnOut.dX.buf) :
       fnOut.dX.buf[j]
         = FSumN(Len(fnOut.mask),
                 LAMBDA m : IF fnOut.mask[m] = j - 1 THEN fnOut.dOut.buf[m] ELSE 0)
  /\ NonOverlapping => SumFrom(fnOut.dX.buf, 1) = SumFrom(fnOut.dOut.buf, 1)

\* C7 (as stated): poolBackward adds each output gradient to exactly the input
\* position poolForward recorded for it, every other position gets zero, and
\* with non-overlapping windows the two gradient sums are equal.
C7_PoolRoutesEveryGradient == PoolDone => RoutedByMask

\* C7 (amended): the same, for inputs whose every pooling window holds a value
\* greater than -Infinity (a window of NaN and -Infinity only records -1, and
\* its gradient is dropped).
C7_PoolRoutesWhenWindowsHaveMax == (PoolDone /\ EveryWindowHasMax) => RoutedByMask

C7_Witness ==
  /\ PoolDone
  /\ EveryWindowHasMax
  /\ ~NonOverlapping
  /\ Len(fnOut.mask) = 2
  /\ fnOut.mask[1] = fnOut.mask[2]
  /\ \E j \in 1..Len(fnOut.dX.buf) : fnOut.dX.buf[j] # 0
  /\ \E j \in 1..Len(fnIn.input.buf) : IsNaN(fnIn.input.buf[j])

ConvDone == pc = "fn" /\ fnIn.fn = "conv" /\ fnOut # None

\* C8: each output dimension of a built Conv2D layer is
\* floor((in + padBefore + padAfter - kernel) / stride) + 1, 'valid' pads
\* nothing, and 'same' with stride 1 keeps the input height and width.
C8_ConvOutputShape ==
  ConvDone =>
    LET l == fnOut.layer
        H == fnIn.shape[2]
        W == fnIn.shape[3]
        kH == fnIn.cfg.kernel[1]
        kW == fnIn.cfg.kernel[2]
    IN /\ ~fnOut.threw
       /\ l.outShape[2] = ((H + l.padTop + l.padBottom - kH) \div l.strideH) + 1
       /\ l.outShape[3] = ((W + l.padLeft + l.padRight - kW) \div l.strideW) + 1
       /\ fnIn.cfg.padding = "valid" =>
            <<l.padTop, l.padBottom, l.padLeft, l.padRight>> = <<0, 0, 0, 0>>
       /\ (fnIn.cfg.padding = "same" /\ l.strideH = 1) => l.outShape[2] = H
       /\ (fnIn.cfg.padding = "same" /\ l.strideW = 1) => l.outShape[3] = W

C8_Witness ==
  /\ ConvDone
  /\ fnIn.cfg.padding = "same"
  /\ fnIn.cfg.stride = <<>>
  /\ fnIn.cfg.kernel = <<3, 2>>
  /\ fnIn.shape = <<1, 2, 3, 1>>
  /\ fnOut.layer.outShape = <<1, 2, 3, 1>>
  /\ fnOut.layer.padTop = 1
  /\ fnOut.layer.padRight = 1

\* some entry of the list, of one of the types, directly follows a Dense or a
\* Flatten entry
FedAVector(cfgs, types) ==
  \E i \in 2..Len(cfgs) :
    cfgs[i].type \in types /\ cfgs[i - 1].type \in {"dense", "flatten"}

\* C9 (as stated): the constructor accepts no list that places a Conv2D, Pool
\* or Flatten layer directly after a Dense or Flatten layer.
C9_CtorRejectsVectorFedLayers ==
  pc = "ready" => ~FedAVector(configs, {"conv2d", "pool", "flatten"})

\* C9 (amended): the constructor accepts no list that places a Conv2D directly
\* after a Dense or Flatten layer; when it accepts a list that places a Pool or
\* Flatten there, every guess and train call on the network throws.
C9_ConvRejectedOthersDeferred ==
  /\ pc = "ready" => ~FedAVector(configs, {"conv2d"})
  /\ (pc = "ready" /\ FedAVector(configs, {"pool", "flatten"}) /\ last.op # "none")
       => last.threw

C9_Witness ==
  /\ pc = "ready"
  /\ Len(configs) = 3
  /\ configs[2].type = "dense"
  /\ configs[3].type = "pool"
  /\ last.op = "guess"
  /\ last.threw

\* what a forward step produced: the shape of a tensor, the length of a vector
ProducedShape(v) == IF IsT4(v) THEN v.shape ELSE <<Len(v.buf)>>

\* what was inferred at construction for the layer's output
DeclaredOut(layer) ==
  IF layer.type \in {"dense", "flatten"} THEN <<getOutputSizeOf(layer)>>
  ELSE inferOutputShape(layer)

DeclaredOuts(ls) == Buf(Len(ls), LAMBDA i : DeclaredOut(ls[i]))

AllPositive(ls) == \A i \in 1..Len(ls) : PositiveDims(inferOutputShape(ls[i]))

InputOnlyFirst(cfgs) ==
  \A i \in 1..Len(cfgs) : (cfgs[i].type = "input") <=> (i = 1)

ShapesAsInferred ==
  /\ \A i \in 1..Len(last.outs) : ProducedShape(last.outs[i]) = DeclaredOut(layers[i])
  /\ DeclaredOuts(layers) = DeclaredOuts(last.before)

\* C10 (as stated): on an accepted network of positive dimensions, called with
\* an input of the declared shape, every layer's forward step produces the
\* shape inferred for it at construction, and a call changes no declared shape.
C10_ForwardMatchesInference ==
  (pc = "ready" /\ last.op # "none" /\ AllPositive(layers)) => ShapesAsInferred

\* C10 (amended): the same, for networks whose first layer, and no other, is an
\* Input layer (an Input layer further down declares its own shape and passes
\* on whatever it receives).
C10_ForwardMatchesInferenceInputFirst ==
  (pc = "ready" /\ last.op # "none" /\ AllPositive(layers)
     /\ InputOnlyFirst(configs)) => ShapesAsInferred

C10_Witness ==
  /\ pc = "ready"
  /\ last.op = "train"
  /\ ~last.threw
  /\ AllPositive(layers)
  /\ InputOnlyFirst(configs)
  /\ Len(last.outs) = 3
  /\ configs[2].type = "conv2d"
  /\ configs[3].type = "flatten"
  /\ layers # last.before

\* the constructor got as far as entry i of the list
ReachedEntry(i) == pc = "ready" \/ (pc = "ctorThrew" /\ thrown.at >= i)

\* C12: the constructor throws "Conv2D must follow an input/conv/pool" at a
\* Conv2D entry that is first or directly follows a Dense or Flatten layer, and
\* does not throw at a Conv2D entry that directly follows an Input, Conv2D or
\* Pool layer.
C12_ConvOrderChecked ==
  \A i \in 1..Len(configs) :
    (configs[i].type = "conv2d" /\ ReachedEntry(i)) =>
      IF i = 1 \/ configs[i - 1].type \in {"dense", "flatten"}
        THEN pc = "ctorThrew" /\ thrown = [at |-> i, err |-> ConvOrderError]
        ELSE /\ configs[i - 1].type \in {"input", "conv2d", "pool"}
             /\ pc = "ctorThrew" => thrown.at # i

C12_Witness ==
  /\ pc = "ctorThrew"
  /\ Len(configs) = 3
  /\ configs[1].type = "input"
  /\ configs[2].type = "dense"
  /\ configs[3].type = "conv2d"
  /\ thrown = [at |-> 3, err |-> ConvOrderError]

\* C13: the constructor throws for every list of fewer than two entries, and
\* has then built no layer and drawn no random number.
C13_TooFewLayersThrows ==
  [][(pc = "new" /\ Len(configs') < 2) =>
       /\ pc' = "ctorThrew"
       /\ thrown' = [at |-> 0, err |-> TooFewError]
       /\ layers' = <<>>
       /\ rng' = rng]_vars

C13_Witness ==
  /\ pc = "ctorThrew"
  /\ Len(configs) = 1
  /\ configs[1].type = "input"
  /\ thrown.err = TooFewError
  /\ layers = <<>>

FlattenDone == pc = "fn" /\ fnIn.fn = "flatten" /\ fnOut # None

\* C14: a forward pass that reaches a Flatten layer with a tensor whose batch
\* dimension is not 1 throws; with batch dimension 1 it returns the H*W*C values
\* of the tensor as a vector.
C14_FlattenNeedsBatchOne ==
  FlattenDone =>
    LET sh == fnIn.input.shape
    IN IF sh[1] # 1 THEN fnOut.threw
       ELSE /\ ~fnOut.threw
            /\ IsVec(fnOut.out)
            /\ Len(fnOut.out.buf) = sh[2] * sh[3] * sh[4]
            /\ fnOut.out.buf = fnIn.input.buf

C14_Witness ==
  /\ FlattenDone
  /\ fnIn.input.shape = <<2, 2, 1, 2>>
  /\ fnOut.threw

\* the Dense layer of backward step k is not the network's last layer
HiddenDenseStep(k) ==
  /\ StepLayer(k).type = "dense"
  /\ last.steps[k].layer < Len(last.before)
  /\ ~last.steps[k].threw

\* dZ of a Dense backward step: dB = clip(dZ) is the tail of the values used
StepDZ(k, i) ==
  last.steps[k].used[StepLayer(k).inputSize * StepLayer(k).outputSize + i]

\* the pre-activation z the forward pass of the last call cached for step k
StepZ(k) ==
  forwardPass(last.before, last.input, opts.debug).ctx[last.steps[k].layer].cache.z

Seeded == last.op = "train" /\ last.seed # None

SoftmaxOutput ==
  LET l == last.before[Len(last.before)]
  IN l.type = "dense" /\ l.activation = "softmax"

\* C19: train seeds the backward pass with prediction[i] - target[i] for every
\* prediction[i] when the output layer is Dense with softmax and the loss is
\* categoricalCrossEntropy, and otherwise with the selected loss's
\* df(prediction, target).
C19_SeedGradient ==
  Seeded =>
    LET prediction == last.outs[Len(last.outs)]
    IN IF SoftmaxOutput /\ opts.loss = "categoricalCrossEntropy"
         THEN /\ Len(last.seed.buf) = Len(prediction.buf)
              /\ \A i \in 1..Len(prediction.buf) :
                   last.seed.buf[i]
                     = FSub(prediction.buf[i], BufGet(last.target, i - 1))
         ELSE last.seed.buf = LossDF(opts.loss, prediction, last.target)

C19_Witness ==
  /\ Seeded
  /\ SoftmaxOutput
  /\ opts.loss = "categoricalCrossEntropy"
  /\ last.input \in DeclaredInputs
  /\ last.outs[Len(last.outs)].buf = <<1>>
  /\ last.target = <<-1, 1>>
  /\ last.seed.buf = <<2>>
  /\ ~last.threw

\* the number of backward steps of the last call that updated layer i
UpdatesOf(i) ==
  Cardinality({k \in TrainSteps : last.steps[k].layer = i /\ ~last.steps[k].threw})

HasParameters(l) == l.type \in {"dense", "conv2d"}

\* the forward pass left one entry per layer, in configuration order, the Input
\* layer first and passing on the caller's input
ForwardComplete ==
  /\ Len(last.outs) = Len(last.before)
  /\ last.before[1].type = "input"
  /\ last.outs[1] = last.input

\* backward step k worked on layer n - k + 1, with the cache that layer's
\* forward step produced in this call
BackwardInOrder ==
  \A k \in TrainSteps :
    /\ last.steps[k].layer = Len(last.before) - k + 1
    /\ last.steps[k].cache
         = forwardPass(last.before, last.input, opts.debug)
             .ctx[last.steps[k].layer].cache

\* C18 (as stated): every train call runs the forward steps of all layers in
\* order, then the backward steps from the last layer to the first, each with
\* its own layer's cache, and updates each Dense and Conv2D layer exactly once.
C18_TrainOrderEveryCall ==
  last.op = "train" =>
    /\ ForwardComplete
    /\ BackwardInOrder
    /\ \A i \in 1..Len(last.before) :
         HasParameters(last.before[i]) => UpdatesOf(i) = 1

\* C18 (amended): a train call that returns normally has done all of that; a
\* train call that throws has taken no backward step unless its forward pass
\* completed, has taken its backward steps in the same order from the last
\* layer down to the layer where it stopped, and has updated no layer twice and
\* no layer below the one where it stopped.
C18_TrainOrder ==
  last.op = "train" =>
    /\ (last.steps # <<>> \/ ~last.threw) => ForwardComplete
    /\ BackwardInOrder
    /\ \A i \in 1..Len(last.before) :
         /\ UpdatesOf(i) <= 1
         /\ (~HasParameters(last.before[i]) \/ UpdatesOf(i) = 0)
              => layers[i] = last.before[i]
         /\ (~last.threw /\ HasParameters(last.before[i])) => UpdatesOf(i) = 1
    /\ ~last.threw => Len(last.steps) = Len(last.before)

C18_Witness ==
  /\ last.op = "train"
  /\ ~last.threw
  /\ last.input \in DeclaredInputs
  /\ Len(last.before) = 5
  /\ Len(last.steps) = 5
  /\ last.steps[1].layer = 5
  /\ last.steps[4].layer = 2
  /\ layers[2].kernel # last.before[2].kernel
  /\ layers[5].weights # last.before[5].weights

\* the contents of the arrays the checkpoint r holds
CheckpointArrays ==
  Buf(Len(heap.ck.refs),
      LAMBDA i : IF heap.ck.refs[i] = <<>> THEN <<>>
                 ELSE <<heap.mem[heap.ck.refs[i][1]], heap.mem[heap.ck.refs[i][2]]>>)

\* C11: once r = checkpoint() is taken, no train call, on the network or on
\* n = fromCheckpoint(r), changes the contents of r's arrays, and no write to
\* r's arrays changes a parameter of n.
C11_CheckpointCopies ==
  [][/\ (heap.ck # None /\ heap'.op \in {"train", "trainRestored"})
          => CheckpointArrays' = CheckpointArrays
     /\ (heap'.op = "write" /\ restored # None) => restored' = restored]_vars

C11_Witness ==
  /\ heap # None
  /\ heap.op = "write"
  /\ restored # None
  /\ ~restored.threw
  /\ last.op = "train"
  /\ layers # last.before
  /\ layers[2].type = "conv2d"
  /\ CheckpointArrays[2][1][1] = WrittenVal
  /\ restored.layers[2].kernel.buf[1] # WrittenVal
  /\ restored.layers[2].kernel.buf = last.before[2].kernel.buf

CliDone == pc = "fn" /\ fnIn.fn = "cli" /\ fnOut # None

\* the number the last --test-count=<number> argument gives, None without one
TestCountGiven ==
  LET given == {i \in 1..Len(fnIn.argv) :
                  /\ fnIn.argv[i].dashes
                  /\ fnIn.argv[i].key = "test-count"
                  /\ fnIn.argv[i].value # Absent
                  /\ ~IsNaN(parseInt(fnIn.argv[i].value))}
  IN IF given = {} THEN None
     ELSE parseInt(fnIn.argv[CHOOSE i \in given : \A j \in given : j <= i].value)

NoTestCountArg ==
  \A i \in 1..Len(fnIn.argv) :
    ~(fnIn.argv[i].dashes /\ fnIn.argv[i].key = "test-count")

\* C15: getCLIOptions returns as testCount the integer --test-count=<number>
\* gives, and 200 when there is no --test-count argument, whatever
\* --train-count says.
C15_TestCountFromItsOption ==
  CliDone =>
    /\ TestCountGiven # None => fnOut.testCount = TestCountGiven
    /\ NoTestCountArg => fnOut.testCount = 200

C15_Witness ==
  /\ CliDone
  /\ Len(fnIn.argv) = 2
  /\ fnIn.argv[1] = [dashes |-> TRUE, key |-> "train-count", value |-> <<"3", "0">>]
  /\ fnIn.argv[2] = [dashes |-> TRUE, key |-> "test-count", value |-> <<"7">>]
  /\ fnOut.trainCount = 30
  /\ fnOut.testCount = 30

ActDone == pc = "fn" /\ fnIn.fn = "act" /\ fnOut # None

\* the sampled point is 0
AtZero(x) == IF x.k = "ln" THEN x.n = x.d ELSE x.n = 0

\* the derivative f'(x) of each activation, from its formula in x
TrueDerivative(name, x) ==
  CASE name = "sigmoid" -> Q(x.n * x.d, (x.n + x.d) * (x.n + x.d))
    [] name = "tanh" ->
         IF GtTwenty(x) \/ LtMinusTwenty(x) THEN Q(0, 1)
         ELSE Q(4 * x.n * x.n * x.d * x.d,
                (x.n * x.n + x.d * x.d) * (x.n * x.n + x.d * x.d))
    [] name = "relu" -> IF x.n > 0 THEN Q(1, 1) ELSE Q(0, 1)
    [] name = "leakyRelu" -> IF x.n > 0 THEN Q(1, 1) ELSE Q(1, 100)
    [] name = "elu" -> IF x.n >= x.d THEN Q(1, 1) ELSE Q(x.n, x.d)
    [] name = "softplus" -> Q(x.n, x.n + x.d)
    [] OTHER -> Q(1, 1)

\* relu and leakyRelu have no derivative at 0
Differentiable(name, x) == name \in {"relu", "leakyRelu"} => ~AtZero(x)

\* |a - b| <= 1/1000
Close(a, b) ==
  LET diff == QSub(a, b)
  IN 1000 * (IF diff.n < 0 THEN 0 - diff.n ELSE diff.n) <= diff.d

\* C16: for every registered activation and every sampled x at which f is
\* differentiable, df(f(x)) is within 1/1000 of the derivative f'(x), also
\* beyond the clamp of tanh.
C16_DfOfOutputIsDerivative ==
  (ActDone /\ Differentiable(fnIn.name, fnIn.x)) =>
    Close(fnOut.dy, TrueDerivative(fnIn.name, fnIn.x))

C16_Witness ==
  /\ ActDone
  /\ fnIn.name = "softplus"
  /\ fnIn.x = Ln(Q(1, 1))
  /\ fnOut.y = Ln(Q(2, 1))
  /\ fnOut.dy = Q(2, 3)
  /\ TrueDerivative("softplus", fnIn.x) = Q(1, 2)

InCall == pc = "call"

\* the arrays the SGD update writes in place: Conv2D kernels, Dense weights and bias
UpdatedInPlace ==
  {<<i, "kernel">> : i \in {j \in 1..Len(configs) : configs[j].type = "conv2d"}}
    \cup {<<i, f>> : i \in {j \in 1..Len(configs) : configs[j].type = "dense"},
                     f \in {"weights", "bias"}}

\* C20: within a guess or train call no step writes an array an earlier step
\* stored in a cache, except Conv2D kernels and Dense weights and bias; the
\* caller's input and target arrays are never written.
C20_CachedArraysNotWritten ==
  InCall =>
    /\ heap.late \subseteq UpdatedInPlace
    /\ CallerInput \notin heap.written
    /\ CallerTarget \notin heap.written

C20_Witness ==
  /\ InCall
  /\ heap.call = "train"
  /\ heap.phase = "done"
  /\ configs[2].type = "conv2d"
  /\ heap.late = {<<2, "kernel">>}
  /\ CallerInput \in CacheBufs(heap.ctx[2])
  /\ <<4, "weights">> \in heap.written

AllFinite(buf) == \A j \in 1..Len(buf) : IsFinite(buf[j])

\* the <<n, y, x, c>> of the input positions in the window of output position m
WindowCoords(m) ==
  LET q == CoordOf(fnOut.out.shape, m - 1)
      l == fnOut.layer
  IN {<<q[1], q[2] * l.strideH + wy, q[3] * l.strideW + wx, q[4]>> :
        wy \in 0..(l.windowH - 1), wx \in 0..(l.windowW - 1)}

\* C21: on an input of finite values every output of poolForward is the maximum
\* of its window, its mask entry is the flat index of the first position of the
\* window (row-major) that holds the maximum, in the same batch and channel, and
\* poolBackward's decoding of the entry gives back that position.
C21_PoolMaxAndMask ==
  (PoolDone /\ AllFinite(fnIn.input.buf)) =>
    /\ ~fnOut.threw
    /\ \A m \in 1..Len(fnOut.mask) :
         LET sh == fnIn.input.shape
             at(j) == BufGet(fnIn.input.buf, j)
         IN /\ fnOut.mask[m] \in WindowOf(m)
            /\ fnOut.out.buf[m] = at(fnOut.mask[m])
            /\ \A j \in WindowOf(m) : at(j) <= fnOut.out.buf[m]
            /\ \A j \in WindowOf(m) : at(j) = fnOut.out.buf[m] => fnOut.mask[m] <= j
            /\ decodeIndex(sh, fnOut.mask[m]) \in WindowCoords(m)
            /\ idx(sh, decodeIndex(sh, fnOut.mask[m])[1], decodeIndex(sh, fnOut.mask[m])[2],
                   decodeIndex(sh, fnOut.mask[m])[3], decodeIndex(sh, fnOut.mask[m])[4])
                 = fnOut.mask[m]

\* a 1 x 2 window over two channels whose two positions tie in channel 1
C21_Witness ==
  /\ PoolDone
  /\ AllFinite(fnIn.input.buf)
  /\ fnIn.input.shape = <<1, 1, 2, 2>>
  /\ fnIn.input.buf = <<1, -1, 1, 2>>
  /\ fnOut.layer.windowW = 2
  /\ fnOut.out.buf = <<1, 2>>
  /\ fnOut.mask = <<0, 3>>
  /\ decodeIndex(fnIn.input.shape, 3) = <<0, 0, 1, 1>>

PadCropDone == pc = "fn" /\ fnIn.fn = "padcrop" /\ fnOut # None

\* C22: the crop of conv2DBackward undoes Tensor4D.pad: the cropped tensor has the
\* shape of the un-padded one, its entry (n, y, x, c) is the padded entry
\* (n, y + padTop, x + padLeft, c), so it holds the un-padded contents, and
\* every padded cell outside that region is zero.
C22_CropUndoesPad ==
  PadCropDone =>
    LET t == fnIn.input
        p == fnOut.padded
    IN /\ fnOut.cropped.shape = t.shape
       /\ fnOut.cropped.buf = t.buf
       /\ p.shape = <<t.shape[1], t.shape[2] + fnIn.top + fnIn.bottom,
                      t.shape[3] + fnIn.left + fnIn.right, t.shape[4]>>
       /\ Len(p.buf) = F32Size(p.shape)
       /\ \A j \in 1..Len(p.buf) :
            LET q == CoordOf(p.shape, j - 1)
            IN IF q[2] >= fnIn.top /\ q[2] < fnIn.top + t.shape[2]
                    /\ q[3] >= fnIn.left /\ q[3] < fnIn.left + t.shape[3]
                 THEN p.buf[j] = TGet(fnOut.cropped, q[1], q[2] - fnIn.top,
                                      q[3] - fnIn.left, q[4])
                 ELSE p.buf[j] = 0

C22_Witness ==
  /\ PadCropDone
  /\ fnIn.input = T4(<<1, 2, 2, 1>>, PatBuf(1, 4))
  /\ fnIn.top = 1 /\ fnIn.bottom = 0 /\ fnIn.left = 1 /\ fnIn.right = 0
  /\ fnOut.padded.shape = <<1, 3, 3, 1>>
  /\ fnOut.padded.buf[1] = 0
  /\ fnOut.padded.buf[5] = fnIn.input.buf[1]
  /\ fnOut.cropped = fnIn.input

\* the gradient backward step k of the last train call was given
StepDOut(k) == IF k = 1 THEN last.seed ELSE last.steps[k - 1].dIn

\* the gradient step k returns when its layer is l and no update is applied
\* (learning rate 0)
StepDInWithoutUpdate(k, l) ==
  backwardLayer(l, StepDOut(k), last.steps[k].cache, 0, opts.loss, opts.debug).dIn

\* C23: the gradient a Dense or Conv2D backward step returns is the one computed
\* from the layer's weights / kernel as they were before the step: it is the
\* gradient the step returns when it updates nothing.
C23_GradientFromOldWeights ==
  \A k \in TrainSteps :
    (HasParameters(StepLayer(k)) /\ ~last.steps[k].threw) =>
      last.steps[k].dIn = StepDInWithoutUpdate(k, StepLayer(k))

\* a step whose update changed the weights so that they would have given
\* another gradient
C23_Witness ==
  \E k \in TrainSteps :
    /\ HasParameters(StepLayer(k))
    /\ ~last.steps[k].threw
    /\ layers[last.steps[k].layer] # StepLayer(k)
    /\ last.steps[k].dIn # StepDInWithoutUpdate(k, layers[last.steps[k].layer])
    /\ StepLayer(k).type = "dense"

BothTrained == pc = "ready" /\ restored # None /\ restored.after # None

InsideShape(q, shape) == \A d \in 1..4 : q[d] >= 0 /\ q[d] < shape[d]

\* the shape of the padded input of the Conv2D layer built for fnIn.shape
PaddedShape ==
  pad(T4(fnIn.shape, Zeros(F32Size(fnIn.shape))), fnOut.layer.padTop,
      fnOut.layer.padBottom, fnOut.layer.padLeft, fnOut.layer.padRight).shape

InTrainer == pc = "trainer"

\* the call has returned
TrainerDone == InTrainer /\ heap.at = "epoch" /\ heap.e = heap.epochs

\* the samples the manifest lists for the train split
SamplesOfSplit ==
  UNION {{[c |-> heap.classes[n].id, off |-> heap.classes[n].train.offsets[k]] :
            k \in 1..heap.classes[n].train.count} : n \in DOMAIN heap.classes}

MultipleOf(n, m) == \E k \in 0..n : k * m = n

LogIs(i, ev, e) == i \in DOMAIN heap.log /\ heap.log[i].ev = ev /\ heap.log[i].e = e
Before(i, ev, e) == {j \in 1..(i - 1) : heap.log[j].ev = ev /\ heap.log[j].e = e}

\* the last thing epoch e does, given whether a due checkpoint is written to a file
LastOfEpoch(e, writes) ==
  IF ~MultipleOf(e + 1, heap.checkpointEvery) THEN "onEpochEnd"
  ELSE IF writes THEN "writeFile" ELSE "onCheckpoint"

\* what the log of a call must look like, up to the point the call has reached
EpochOrder(writes) ==
  /\ \A i \in DOMAIN heap.log :
       LET ev == heap.log[i].ev
           e == heap.log[i].e
       IN  /\ e \in 0..(heap.epochs - 1)
           /\ ev = "onEpochStart" =>
                /\ e = Cardinality({j \in 1..(i - 1) : heap.log[j].ev = "onEpochStart"})
                /\ e > 0 => LogIs(i - 1, LastOfEpoch(e - 1, writes), e - 1)
           /\ ev = "train" =>
                /\ Before(i, "onEpochStart", e) # {}
                /\ Before(i, "onEpochEnd", e) = {}
                /\ heap.log[i].x \in SamplesOfSplit
                /\ \A j \in Before(i, "train", e) : heap.log[j].x # heap.log[i].x
           /\ ev = "onEpochEnd" =>
                /\ Before(i, "onEpochStart", e) # {}
                /\ Before(i, "onEpochEnd", e) = {}
                /\ {heap.log[j].x : j \in Before(i, "train", e)} = SamplesOfSplit
           /\ ev = "checkpoint" =>
                /\ MultipleOf(e + 1, heap.checkpointEvery)
                /\ LogIs(i - 1, "onEpochEnd", e)
           /\ ev = "onCheckpoint" => LogIs(i - 1, "checkpoint", e)
           /\ ev = "writeFile" => LogIs(i - 1, "onCheckpoint", e)
  /\ TrainerDone =>
       LogIs(Len(heap.log), LastOfEpoch(heap.epochs - 1, writes), heap.epochs - 1)

\* C26 as stated: in a Trainer.train call the epochs run in order 0..epochs-1;
\* epoch e is onEpochStart(e), one nn.train per sample of a fresh sampler,
\* onEpochEnd(e) and, exactly when e+1 is a multiple of checkpointEvery,
\* nn.checkpoint(), onCheckpoint(e, ckpt) and the write of the checkpoint file;
\* nothing of epoch e+1 starts before that.
C26_CheckpointAlwaysWritten == InTrainer => EpochOrder(TRUE)

\* C26, amended: the same order, with the checkpoint file written exactly when
\* the checkpoint is due and the call was given a checkpointPath.
C26_EpochOrder == InTrainer => EpochOrder(heap.withPath)

\* a finished call of two epochs with a path and a checkpoint after each
C26_Witness ==
  /\ TrainerDone
  /\ heap.withPath
  /\ heap.epochs = 2
  /\ heap.checkpointEvery = 1
  /\ Cardinality(SamplesOfSplit) = 3
  /\ Cardinality({i \in DOMAIN heap.log : heap.log[i].ev = "writeFile"}) = 2


\* the sampler of the current epoch has yielded its last batch
IterationDone ==
  /\ InTrainer
  /\ heap.log # <<>>
  /\ \/ heap.at = "sampler" /\ heap.i >= Len(heap.order)
     \/ heap.at \in {"epoch", "checkpoint", "write"}

\* the rows of x over the batches yielded so far
RECURSIVE RowsYielded(_)
RowsYielded(n) == IF n = 0 THEN <<>> ELSE RowsYielded(n - 1) \o heap.yielded[n].x

OneHotAt(y, C, b, id) ==
  \A j \in 0..(C - 1) : y[(b - 1) * C + j + 1] = (IF j = id THEN 1 ELSE 0)

\* C27: one full iteration of batches() yields every sample (class, offset) of
\* the split exactly once; every batch but the last holds batchSize samples,
\* the last between one and batchSize; row b of y is one-hot at the id of the
\* class whose sample is row b of x.
C27_BatchesCoverSplit ==
  InTrainer =>
    /\ \A n \in DOMAIN heap.yielded :
         LET batch == heap.yielded[n]
         IN  /\ Len(batch.x) \in 1..heap.batchSize
             /\ n < Len(heap.yielded) => Len(batch.x) = heap.batchSize
             /\ Len(batch.y) = Len(batch.x) * Len(heap.classes)
             /\ \A b \in DOMAIN batch.x :
                  OneHotAt(batch.y, Len(heap.classes), b, batch.x[b].c)
    /\ \A a, b \in DOMAIN RowsYielded(Len(heap.yielded)) :
         a # b => RowsYielded(Len(heap.yielded))[a] # RowsYielded(Len(heap.yielded))[b]
    /\ IterationDone =>
         {RowsYielded(Len(heap.yielded))[a] : a \in DOMAIN RowsYielded(Len(heap.yielded))}
           = SamplesOfSplit

\* a finished iteration over three samples in batches of two: the last batch
\* holds one sample, and the shuffle has moved the first class off the front
C27_Witness ==
  /\ IterationDone
  /\ heap.batchSize = 2
  /\ Len(heap.yielded) = 2
  /\ Len(heap.yielded[2].x) = 1
  /\ heap.yielded[1].x[1].c = 2
  /\ heap.yielded[1].y = <<0, 0, 1, 1, 0, 0>>


InSource == pc = "source"

OpenHandles(full) ==
  {h \in DOMAIN heap.handles : heap.handles[h].p = full /\ heap.handles[h].open}

\* close() has returned and no readSample call is under way
Closed == heap.closing = "done" /\ \A c \in 1..MaxReads : ~InFlight(c)

\* no readSample call has opened a handle since close() returned
NothingOpenedSinceClose == heap.cache = <<>>

\* C28: a NodeFileSource holds at most one open handle per resolved path, and
\* once close() has returned every handle readSample had opened is closed,
\* however the calls interleave.
C28_OneHandlePerPathAllClosed ==
  InSource =>
    /\ \A full \in BinPaths : Cardinality(OpenHandles(full)) <= 1
    /\ Closed /\ NothingOpenedSinceClose =>
         \A full \in BinPaths : OpenHandles(full) = {}

\* the same, for calls that never overlap
C28_SequentialCallsClosed ==
  InSource /\ ~heap.overlapped =>
    /\ \A full \in BinPaths : Cardinality(OpenHandles(full)) <= 1
    /\ Closed /\ NothingOpenedSinceClose =>
         \A full \in BinPaths : OpenHandles(full) = {}

\* two calls for one path that both missed the cache have both opened the
\* file, and close() has since returned: the first handle is still open
C28_Witness ==
  /\ InSource
  /\ Closed
  /\ NothingOpenedSinceClose
  /\ Len(heap.handles) = 2
  /\ heap.handles[1].p = heap.handles[2].p
  /\ heap.handles[1].open
  /\ ~heap.handles[2].open


InDraw == pc = "draw"

\* C29: after any sequence of strokes started on the canvas by mouse or touch
\* and of undo and redo by button or by Ctrl+Z / Ctrl+Y, the undo button is
\* disabled exactly when the snapshot stack is empty and the redo button
\* exactly when the redo stack is empty.
C29_ButtonsFollowStacks ==
  InDraw =>
    /\ heap.undoDisabled <=> heap.snapshots = <<>>
    /\ heap.redoDisabled <=> heap.redosnaps = <<>>

\* Ctrl+Z has just undone one of two strokes: both buttons are enabled
C29_Witness ==
  /\ InDraw
  /\ heap.ev = "keydown"
  /\ heap.target = "z"
  /\ Len(heap.snapshots) = 1
  /\ Len(heap.redosnaps) = 1
  /\ ~heap.undoDisabled
  /\ ~heap.redoDisabled

\* C30: every touch stroke ends: after a touchend the touchDown flag is
\* false, so a mousedown on the canvas that follows starts a mouse stroke.
C30_TouchStrokeEnds ==
  InDraw =>
    /\ heap.ev = "touchend" => ~heap.touchDown
    /\ heap.ev = "mousedown" /\ heap.target = "canvas" => heap.mouseDown

\* a touch stroke has been made and the finger lifted; the mousedown on the
\* canvas that followed was ignored
C30_Witness ==
  /\ InDraw
  /\ heap.ev = "mousedown"
  /\ heap.target = "canvas"
  /\ heap.touchDown
  /\ ~heap.mouseDown
  /\ Len(heap.snapshots) = 1

\* the mouse alone: a mousedown on the canvas starts a stroke as long as no
\* touch stroke was ever started
C30_MouseStrokeStarts ==
  InDraw /\ ~heap.touchDown =>
    (heap.ev = "mousedown" /\ heap.target = "canvas" => heap.mouseDown)

====
